---------------------------- MODULE Spec2Model ----------------------------
(***************************************************************************)
(* Battle Board: the rules engine (unit catalog, battle resolver, board)   *)
(* and the agents built on it, modelled from                               *)
(*   src/frontend/src/game/rules.js        (resolver, catalog, Character)  *)
(*   src/frontend/src/components/Board.jsx (BasicAI, MCTSAI, GameBoard)    *)
(*                                                                         *)
(* Units are heap objects: a unit is an identity 1..NumUnits whose kind    *)
(* and owner are fixed and whose isAlive / isRevealed fields are shared by *)
(* every board that references it.  A board is a record holding a grid of  *)
(* unit references (NULL for an empty cell).                               *)
(*                                                                         *)
(* The source board is 9 x 7 with 21 units per side on three home rows.    *)
(* The model keeps the code of every operation and shrinks the board to    *)
(* ROWS x COLS with one home row per side, filled by the first COLS kinds  *)
(* of a team list.                                                         *)
(***************************************************************************)
EXTENDS Integers, Sequences, FiniteSets, TLC

\* ------------------------------------------------------------------ bounds
ROWS == 3
COLS == 2
\* accepted moves played on the live board in one behaviour
MaxPlies == 4
\* moves played on a clone before it is dropped
MaxCloneMoves == 1
\* accepted moves played on the live board before MCTSAI.getMove is called
MaxOpening == 3
\* iterations one mctsSearch completes before its time budget runs out
MaxIterations == 4
\* simulate's ply cap (the parameter's default is 100)
maxMoves == 2
\* games the App starts in one behaviour
MaxGames == 2
\* the sequences of random numbers one shuffle may draw are built from two
\* parameters in 0..MaxDraw
MaxDraw == 3

\* an empty cell (null in the source)
NULL == 0

\* ----------------------------------------------------------- unit catalog
\* CharacterType: kind -> priority (lower is stronger)
CharacterType ==
  [ GENERAL_5 |-> 1, GENERAL_4 |-> 2, GENERAL_3 |-> 3, GENERAL_2 |-> 4,
    GENERAL_1 |-> 5, COLONEL |-> 6, LT_COLONEL |-> 7, MAJOR |-> 8,
    CAPTAIN |-> 9, FIRST_LT |-> 10, SECOND_LT |-> 11, MASTER_SGT |-> 12,
    SGT |-> 13, CORPORAL |-> 14,
    BOMB_1 |-> 0, BOMB_2 |-> 0, ENGINEER |-> 16, WUKONG_1 |-> 17,
    WUKONG_2 |-> 17, FLAG |-> 19, MP |-> 18 ]

Kinds == DOMAIN CharacterType

priority(k) == CharacterType[k]

\* a canMove that lets every kind move
canMoveAnyKind(k) == k \in Kinds

\* Character.canMove, on the kind
canMove(k) == k # "FLAG" /\ k # "BOMB_1" /\ k # "BOMB_2"

\* ------------------------------------------------------- battle resolver
BattleResult(attackerSurvives, defenderSurvives) ==
  [ attackerSurvives |-> attackerSurvives,
    defenderSurvives |-> defenderSurvives,
    attackerRevealed |-> TRUE,
    defenderRevealed |-> TRUE ]

bothDie(r)      == ~r.attackerSurvives /\ ~r.defenderSurvives
attackerWins(r) == r.attackerSurvives /\ ~r.defenderSurvives
defenderWins(r) == ~r.attackerSurvives /\ r.defenderSurvives

\* a comparison in which a tie goes to the attacker
resolveGeneralBattleTieWins(a, d) ==
  IF priority(a) <= priority(d) THEN BattleResult(TRUE, FALSE)
  ELSE BattleResult(FALSE, TRUE)

resolveGeneralBattle(a, d) ==
  IF priority(a) < priority(d) THEN BattleResult(TRUE, FALSE)
  ELSE IF priority(a) > priority(d) THEN BattleResult(FALSE, TRUE)
  ELSE BattleResult(FALSE, FALSE)

isBomb(k) == k = "BOMB_1" \/ k = "BOMB_2"
isWukong(k) == k = "WUKONG_1" \/ k = "WUKONG_2"
topRanks == {"GENERAL_5", "GENERAL_4", "GENERAL_3", "GENERAL_2", "GENERAL_1"}

\* the special rules without the branch for an attacked MONKEY_KING
resolveSpecialBattleAttackOnly(a, d) ==
  IF d = "FLAG" THEN << BattleResult(TRUE, FALSE) >>
  ELSE IF a = "ENGINEER" /\ isBomb(d) THEN << BattleResult(TRUE, FALSE) >>
  ELSE IF d = "ENGINEER" /\ isBomb(a) THEN << BattleResult(FALSE, TRUE) >>
  ELSE IF isBomb(a) /\ ~isBomb(d) /\ d # "ENGINEER"
       THEN << BattleResult(TRUE, FALSE) >>
  ELSE IF isBomb(d) /\ ~isBomb(a) /\ a # "ENGINEER"
       THEN << BattleResult(FALSE, TRUE) >>
  ELSE IF isWukong(a) /\ d \in topRanks THEN << BattleResult(TRUE, FALSE) >>
  ELSE << >>

\* resolveSpecialBattle: <<result>>, or <<>> for the source's null
resolveSpecialBattle(a, d) ==
  IF d = "FLAG" THEN << BattleResult(TRUE, FALSE) >>
  ELSE IF a = "ENGINEER" /\ isBomb(d) THEN << BattleResult(TRUE, FALSE) >>
  ELSE IF d = "ENGINEER" /\ isBomb(a) THEN << BattleResult(FALSE, TRUE) >>
  ELSE IF isBomb(a) /\ ~isBomb(d) /\ d # "ENGINEER"
       THEN << BattleResult(TRUE, FALSE) >>
  ELSE IF isBomb(d) /\ ~isBomb(a) /\ a # "ENGINEER"
       THEN << BattleResult(FALSE, TRUE) >>
  ELSE IF isWukong(a) /\ d \in topRanks THEN << BattleResult(TRUE, FALSE) >>
  ELSE IF isWukong(d) /\ a \in topRanks THEN << BattleResult(FALSE, TRUE) >>
  ELSE << >>

\* The units reveal() is called on inside resolveBattle, as
\* <<attacker is revealed, defender is revealed>>.
resolveReveals(a, d) ==
  IF a = "MP" THEN << FALSE, TRUE >>
  ELSE IF d = "MP" THEN << TRUE, FALSE >>
  ELSE << FALSE, FALSE >>

\* resolveBattle's return value, on the kinds of attacker and defender
resolveOutcome(a, d) ==
  IF a = "MP" THEN resolveGeneralBattle(a, d)
  ELSE IF d = "MP" THEN resolveGeneralBattle(a, d)
  ELSE LET specialResult == resolveSpecialBattle(a, d)
       IN  IF specialResult # << >> THEN specialResult[1]
           ELSE resolveGeneralBattle(a, d)


\* ------------------------------------------------------------ state
VARIABLES
  unitType,    \* unit -> kind (Character.type, fixed at construction)
  isAlive,     \* unit -> BOOLEAN (Character.isAlive)
  isRevealed,  \* unit -> BOOLEAN (Character.isRevealed)
  game,        \* the live GameBoard held by the session
  copy,        \* << >>, or <<b>>: a board obtained by GameBoard.clone()
  cloneMoves,  \* accepted moves played on copy since it was cloned
  plies,       \* accepted moves played on game
  last,        \* the last operation and what it returned
  battle,      \* << >>, or <<r>>: what a direct resolveBattle call returned
  pc,          \* where a running MCTSAI.getMove call stands ("idle": none)
  atCall,      \* << >>, or <<s>>: game and the units' fields when
               \* MCTSAI.getMove was called
  movesAtCall,    \* getMove's allMoves, as the sequence of their moves
  round,       \* getMove's loop variable i
  moveScores,  \* getMove's moveScores, as its entries in insertion order
  tree,        \* the MCTSNode objects of the running mctsSearch; root is 1
  iterations,  \* mctsSearch's iterations
  node,        \* mctsSearch's node after selection and expansion
  simBoard,    \* << >>, or <<b>>: simulate's simBoard
  moves,       \* simulate's moves
  result,      \* << >>, or <<r>>: mctsSearch's result, what simulate returned
  heap,        \* the GameBoard objects the App has created, oldest first,
               \* each with its units' isAlive and isRevealed
  gameBoard,   \* App's gameBoard: 0 (null) or an index into heap
  gameState,   \* App's gameState: << >> (null) or <<s>>
  selectedCell,    \* App's selectedCell: << >> (null) or <<pos>>
  validMovesShown, \* App's validMoves: the destinations shown
  loading,     \* App's loading
  timers       \* the callbacks given to setTimeout that have not run yet

mctsVars == << pc, atCall, movesAtCall, round, moveScores, tree, iterations,
              node, simBoard, moves,
              result >>

appVars == << heap, gameBoard, gameState, selectedCell, validMovesShown,
             loading, timers >>

vars == << unitType, isAlive, isRevealed, game, copy, cloneMoves, plies, last,
          battle, pc, atCall, movesAtCall, round, moveScores, tree, iterations,
          node, simBoard, moves,
          result, heap, gameBoard, gameState, selectedCell, validMovesShown,
          loading, timers >>

\* createFullTeam gives 21 units per side; the model keeps TeamSize of them
TeamSize == COLS
NumUnits == 2 * TeamSize
Units == 1 .. NumUnits
\* aiTeam (player 0) is units 1..TeamSize, playerTeam (player 1) the rest
playerId(u) == IF u <= TeamSize THEN 0 ELSE 1
TeamUnit(p, i) == p * TeamSize + i

Position(r, c) == [row |-> r, col |-> c]
Move(fromPos, toPos) == [fromPos |-> fromPos, toPos |-> toPos]

isValidPosition(pos) ==
  pos.row >= 0 /\ pos.row < ROWS /\ pos.col >= 0 /\ pos.col < COLS

Cells == { Position(r, c) : r \in 0 .. ROWS - 1, c \in 0 .. COLS - 1 }

\* GameBoard.getCharacter
getCharacter(b, pos) ==
  IF ~isValidPosition(pos) THEN NULL ELSE b.board[pos]

\* the neighbours visited left and right first
directionsSidesFirst == << << 0, -1 >>, << 0, 1 >>, << -1, 0 >>, << 1, 0 >> >>

\* getValidMoves' directions: up, down, left, right
directions == << << -1, 0 >>, << 1, 0 >>, << 0, -1 >>, << 0, 1 >> >>

RECURSIVE validMovesFrom(_, _, _, _)
\* the loop of getValidMoves over directions[i..4]
validMovesFrom(b, pos, character, i) ==
  IF i > Len(directions) THEN << >>
  ELSE LET newPos == Position(pos.row + directions[i][1],
                              pos.col + directions[i][2])
           rest == validMovesFrom(b, pos, character, i + 1)
       IN  IF ~isValidPosition(newPos) THEN rest
           ELSE LET target == getCharacter(b, newPos)
                IN  IF target = NULL \/ playerId(target) # playerId(character)
                    THEN << Move(pos, newPos) >> \o rest
                    ELSE rest

\* GameBoard.getValidMoves, reading the units' isAlive from alive
getValidMoves(b, alive, pos) ==
  LET character == getCharacter(b, pos)
  IN  IF character = NULL THEN << >>
      ELSE IF ~alive[character] THEN << >>
      ELSE IF ~canMove(unitType[character]) THEN << >>
      ELSE IF playerId(character) # b.currentPlayer THEN << >>
      ELSE validMovesFrom(b, pos, character, 1)

\* cells in row-major order, as the loops of getAllValidMoves visit them
CellSeq == [ i \in 1 .. ROWS * COLS |-> Position((i - 1) \div COLS, (i - 1) % COLS) ]

RECURSIVE allValidMovesFrom(_, _, _, _)
allValidMovesFrom(b, alive, p, i) ==
  IF i > Len(CellSeq) THEN << >>
  ELSE LET pos == CellSeq[i]
           character == getCharacter(b, pos)
           rest == allValidMovesFrom(b, alive, p, i + 1)
       IN  IF character # NULL /\ alive[character] /\ playerId(character) = p
           THEN getValidMoves(b, alive, pos) \o rest
           ELSE rest

\* GameBoard.getAllValidMoves: the moves, in order (each item's pos is its
\* move's fromPos)
getAllValidMoves(b, alive, p) == allValidMovesFrom(b, alive, p, 1)

\* a reveal() that flips isRevealed instead of setting it
resolveBattleTogglesReveal(attacker, defender, revealed) ==
  LET rv == resolveReveals(unitType[attacker], unitType[defender])
  IN  [ result |-> resolveOutcome(unitType[attacker], unitType[defender]),
        isRevealed |-> [ u \in Units |->
                           IF (u = attacker /\ rv[1]) \/ (u = defender /\ rv[2])
                           THEN ~revealed[u] ELSE revealed[u] ] ]

\* resolveBattle on two units: the outcome, and isRevealed after the
\* reveal() calls it makes
resolveBattle(attacker, defender, revealed) ==
  LET rv == resolveReveals(unitType[attacker], unitType[defender])
  IN  [ result |-> resolveOutcome(unitType[attacker], unitType[defender]),
        isRevealed |-> [ u \in Units |->
                           IF (u = attacker /\ rv[1]) \/ (u = defender /\ rv[2])
                           THEN TRUE ELSE revealed[u] ] ]

\* a rejection that has already passed the turn
RejectedAfterToggle(b, alive, revealed) ==
  [ ok |-> FALSE, board |-> [ b EXCEPT !.currentPlayer = 1 - @ ],
    isAlive |-> alive, isRevealed |-> revealed ]

\* what makeMove returns and leaves behind when it rejects the move
Rejected(b, alive, revealed) ==
  [ ok |-> FALSE, board |-> b, isAlive |-> alive, isRevealed |-> revealed ]

\* a turn change that is skipped
toggleTurnSkipped(currentPlayer) == currentPlayer

\* this.currentPlayer = 1 - this.currentPlayer
toggleTurn(currentPlayer) == 1 - currentPlayer

\* the capture test with isAlive read the wrong way round
flagCapturedIfAlive(target, alive) ==
  unitType[target] = "FLAG" /\ alive[target]

\* target.type === CharacterType.FLAG && !target.isAlive
flagCaptured(target, alive) ==
  unitType[target] = "FLAG" /\ ~alive[target]

\* a battle branch in which a surviving attacker brings its side's fallen
\* units back
makeMoveBattleRevives(b, alive, revealed, move, character, target) ==
  LET br == resolveBattle(character, target, revealed)
      battleResult == br.result
      lastBattle == [ attacker |-> unitType[character],
                      defender |-> unitType[target],
                      attackerSurvives |-> battleResult.attackerSurvives,
                      defenderSurvives |-> battleResult.defenderSurvives,
                      attackerRevealed |-> battleResult.attackerRevealed,
                      defenderRevealed |-> battleResult.defenderRevealed ]
      alive1 == IF ~battleResult.attackerSurvives
                THEN [alive EXCEPT ![character] = FALSE]
                ELSE [ u \in Units |->
                         alive[u] \/ playerId(u) = playerId(character) ]
      grid1  == IF ~battleResult.attackerSurvives
                THEN [b.board EXCEPT ![move.fromPos] = NULL] ELSE b.board
      alive2 == IF ~battleResult.defenderSurvives
                THEN [alive1 EXCEPT ![target] = FALSE] ELSE alive1
      grid2  == IF ~battleResult.defenderSurvives
                THEN [grid1 EXCEPT ![move.toPos] = NULL] ELSE grid1
      grid3  == IF battleResult.attackerSurvives
                THEN LET g == [grid2 EXCEPT ![move.toPos] = character]
                     IN  IF move.fromPos # move.toPos
                         THEN [g EXCEPT ![move.fromPos] = NULL] ELSE g
                ELSE grid2
      rev1   == IF battleResult.attackerRevealed
                THEN [br.isRevealed EXCEPT ![character] = TRUE]
                ELSE br.isRevealed
      rev2   == IF battleResult.defenderRevealed
                THEN [rev1 EXCEPT ![target] = TRUE] ELSE rev1
      captured == flagCaptured(target, alive2)
  IN  [ ok |-> TRUE,
        board |-> [ board |-> grid3,
                    currentPlayer |-> toggleTurn(b.currentPlayer),
                    gameOver |-> IF captured THEN TRUE ELSE b.gameOver,
                    winner |-> IF captured THEN << playerId(character) >>
                               ELSE b.winner,
                    lastBattle |-> << lastBattle >> ],
        isAlive |-> alive2,
        isRevealed |-> rev2 ]

\* a battle branch in which a winning attacker is put on the destination
\* and its origin is not vacated
makeMoveBattleKeepsOrigin(b, alive, revealed, move, character, target) ==
  LET br == resolveBattle(character, target, revealed)
      battleResult == br.result
      lastBattle == [ attacker |-> unitType[character],
                      defender |-> unitType[target],
                      attackerSurvives |-> battleResult.attackerSurvives,
                      defenderSurvives |-> battleResult.defenderSurvives,
                      attackerRevealed |-> battleResult.attackerRevealed,
                      defenderRevealed |-> battleResult.defenderRevealed ]
      alive1 == IF ~battleResult.attackerSurvives
                THEN [alive EXCEPT ![character] = FALSE] ELSE alive
      grid1  == IF ~battleResult.attackerSurvives
                THEN [b.board EXCEPT ![move.fromPos] = NULL] ELSE b.board
      alive2 == IF ~battleResult.defenderSurvives
                THEN [alive1 EXCEPT ![target] = FALSE] ELSE alive1
      grid2  == IF ~battleResult.defenderSurvives
                THEN [grid1 EXCEPT ![move.toPos] = NULL] ELSE grid1
      grid3  == IF battleResult.attackerSurvives
                THEN [grid2 EXCEPT ![move.toPos] = character]
                ELSE grid2
      rev1   == IF battleResult.attackerRevealed
                THEN [br.isRevealed EXCEPT ![character] = TRUE]
                ELSE br.isRevealed
      rev2   == IF battleResult.defenderRevealed
                THEN [rev1 EXCEPT ![target] = TRUE] ELSE rev1
      captured == flagCaptured(target, alive2)
  IN  [ ok |-> TRUE,
        board |-> [ board |-> grid3,
                    currentPlayer |-> toggleTurn(b.currentPlayer),
                    gameOver |-> IF captured THEN TRUE ELSE b.gameOver,
                    winner |-> IF captured THEN << playerId(character) >>
                               ELSE b.winner,
                    lastBattle |-> << lastBattle >> ],
        isAlive |-> alive2,
        isRevealed |-> rev2 ]

\* a battle branch that marks a fallen defender dead and leaves it on its
\* cell
makeMoveBattleLeavesDefender(b, alive, revealed, move, character, target) ==
  LET br == resolveBattle(character, target, revealed)
      battleResult == br.result
      lastBattle == [ attacker |-> unitType[character],
                      defender |-> unitType[target],
                      attackerSurvives |-> battleResult.attackerSurvives,
                      defenderSurvives |-> battleResult.defenderSurvives,
                      attackerRevealed |-> battleResult.attackerRevealed,
                      defenderRevealed |-> battleResult.defenderRevealed ]
      alive1 == IF ~battleResult.attackerSurvives
                THEN [alive EXCEPT ![character] = FALSE] ELSE alive
      grid1  == IF ~battleResult.attackerSurvives
                THEN [b.board EXCEPT ![move.fromPos] = NULL] ELSE b.board
      alive2 == IF ~battleResult.defenderSurvives
                THEN [alive1 EXCEPT ![target] = FALSE] ELSE alive1
      grid2  == grid1
      grid3  == IF battleResult.attackerSurvives
                THEN LET g == [grid2 EXCEPT ![move.toPos] = character]
                     IN  IF move.fromPos # move.toPos
                         THEN [g EXCEPT ![move.fromPos] = NULL] ELSE g
                ELSE grid2
      rev1   == IF battleResult.attackerRevealed
                THEN [br.isRevealed EXCEPT ![character] = TRUE]
                ELSE br.isRevealed
      rev2   == IF battleResult.defenderRevealed
                THEN [rev1 EXCEPT ![target] = TRUE] ELSE rev1
      captured == flagCaptured(target, alive2)
  IN  [ ok |-> TRUE,
        board |-> [ board |-> grid3,
                    currentPlayer |-> toggleTurn(b.currentPlayer),
                    gameOver |-> IF captured THEN TRUE ELSE b.gameOver,
                    winner |-> IF captured THEN << playerId(character) >>
                               ELSE b.winner,
                    lastBattle |-> << lastBattle >> ],
        isAlive |-> alive2,
        isRevealed |-> rev2 ]

\* the battle branch of makeMove
makeMoveBattle(b, alive, revealed, move, character, target) ==
  LET br == resolveBattle(character, target, revealed)
      battleResult == br.result
      lastBattle == [ attacker |-> unitType[character],
                      defender |-> unitType[target],
                      attackerSurvives |-> battleResult.attackerSurvives,
                      defenderSurvives |-> battleResult.defenderSurvives,
                      attackerRevealed |-> battleResult.attackerRevealed,
                      defenderRevealed |-> battleResult.defenderRevealed ]
      alive1 == IF ~battleResult.attackerSurvives
                THEN [alive EXCEPT ![character] = FALSE] ELSE alive
      grid1  == IF ~battleResult.attackerSurvives
                THEN [b.board EXCEPT ![move.fromPos] = NULL] ELSE b.board
      alive2 == IF ~battleResult.defenderSurvives
                THEN [alive1 EXCEPT ![target] = FALSE] ELSE alive1
      grid2  == IF ~battleResult.defenderSurvives
                THEN [grid1 EXCEPT ![move.toPos] = NULL] ELSE grid1
      grid3  == IF battleResult.attackerSurvives
                THEN LET g == [grid2 EXCEPT ![move.toPos] = character]
                     IN  IF move.fromPos # move.toPos
                         THEN [g EXCEPT ![move.fromPos] = NULL] ELSE g
                ELSE grid2
      rev1   == IF battleResult.attackerRevealed
                THEN [br.isRevealed EXCEPT ![character] = TRUE]
                ELSE br.isRevealed
      rev2   == IF battleResult.defenderRevealed
                THEN [rev1 EXCEPT ![target] = TRUE] ELSE rev1
      captured == flagCaptured(target, alive2)
  IN  [ ok |-> TRUE,
        board |-> [ board |-> grid3,
                    currentPlayer |-> toggleTurn(b.currentPlayer),
                    gameOver |-> IF captured THEN TRUE ELSE b.gameOver,
                    winner |-> IF captured THEN << playerId(character) >>
                               ELSE b.winner,
                    lastBattle |-> << lastBattle >> ],
        isAlive |-> alive2,
        isRevealed |-> rev2 ]

\* GameBoard.makeMove on board b with the units' fields alive / revealed:
\* the return value, the board and the units' fields afterwards
makeMove(b, alive, revealed, move) ==
  LET character == getCharacter(b, move.fromPos)
  IN  IF character = NULL THEN Rejected(b, alive, revealed)
      ELSE LET validMoves == getValidMoves(b, alive, move.fromPos)
               isValid == \E i \in 1 .. Len(validMoves) :
                             /\ validMoves[i].fromPos = move.fromPos
                             /\ validMoves[i].toPos = move.toPos
           IN  IF ~isValid THEN Rejected(b, alive, revealed)
               ELSE LET target == getCharacter(b, move.toPos)
                    IN  IF target = NULL
                        THEN [ ok |-> TRUE,
                               board |-> [ b EXCEPT
                                  !.board = [ b.board EXCEPT
                                                ![move.toPos] = character,
                                                ![move.fromPos] = NULL ],
                                  !.lastBattle = << >>,
                                  !.currentPlayer = toggleTurn(b.currentPlayer) ],
                               isAlive |-> alive,
                               isRevealed |-> revealed ]
                        ELSE makeMoveBattle(b, alive, revealed, move,
                                            character, target)

\* GameBoard.clone: the grid, the two teams and the scalar fields are
\* copied; the units themselves are not (the new arrays hold the same
\* Character objects), so isAlive / isRevealed stay shared
clone(b) ==
  [ board |-> [ pos \in Cells |-> b.board[pos] ],
    currentPlayer |-> b.currentPlayer,
    gameOver |-> b.gameOver,
    winner |-> b.winner,
    lastBattle |-> b.lastBattle ]


\* CharacterType[kind].name, romanised
CharacterName ==
  [ GENERAL_5 |-> "wonsu", GENERAL_4 |-> "daejang", GENERAL_3 |-> "jungjang",
    GENERAL_2 |-> "sojang", GENERAL_1 |-> "junjang", COLONEL |-> "daeryeong",
    LT_COLONEL |-> "jungnyeong", MAJOR |-> "soryeong", CAPTAIN |-> "daewi",
    FIRST_LT |-> "jungwi", SECOND_LT |-> "sowi", MASTER_SGT |-> "sangsa",
    SGT |-> "jungsa", CORPORAL |-> "hasa",
    BOMB_1 |-> "poktan1", BOMB_2 |-> "poktan2", ENGINEER |-> "gongbyeong",
    WUKONG_1 |-> "sonogong1", WUKONG_2 |-> "sonogong2", FLAG |-> "gukgi",
    MP |-> "heonbyeong" ]

\* a projection that keeps the priority of a hidden unit
getBoardStateKeepsPriority(b, alive, revealed, type, forPlayer) ==
  [ pos \in Cells |->
      LET character == b.board[pos]
      IN  IF character = NULL THEN << >>
          ELSE IF playerId(character) = forPlayer \/ revealed[character]
          THEN << [ name |-> CharacterName[type[character]],
                    type |-> type[character],
                    player_id |-> playerId(character),
                    is_alive |-> alive[character],
                    is_revealed |-> revealed[character],
                    priority |-> << priority(type[character]) >> ] >>
          ELSE << [ name |-> "???",
                    type |-> "HIDDEN",
                    player_id |-> playerId(character),
                    is_alive |-> alive[character],
                    is_revealed |-> FALSE,
                    priority |-> << priority(type[character]) >> ] >> ]

\* GameBoard.getBoardState(forPlayer) on board b whose units have the kinds
\* type: cell -> << >> (null) or <<projection>>; a null priority is << >>
getBoardState(b, alive, revealed, type, forPlayer) ==
  [ pos \in Cells |->
      LET character == b.board[pos]
      IN  IF character = NULL THEN << >>
          ELSE IF playerId(character) = forPlayer \/ revealed[character]
          THEN << [ name |-> CharacterName[type[character]],
                    type |-> type[character],
                    player_id |-> playerId(character),
                    is_alive |-> alive[character],
                    is_revealed |-> revealed[character],
                    priority |-> << priority(type[character]) >> ] >>
          ELSE << [ name |-> "???",
                    type |-> "HIDDEN",
                    player_id |-> playerId(character),
                    is_alive |-> alive[character],
                    is_revealed |-> FALSE,
                    priority |-> << >> ] >> ]

\* ------------------------------------------------------------ BasicAI
Range(seq) == { seq[i] : i \in 1 .. Len(seq) }

\* the test without the check of the target's type
hasAnyTarget(b, move) ==
  LET target == getCharacter(b, move.toPos)
  IN  target # NULL

hasFlagTarget(b, move) ==
  LET target == getCharacter(b, move.toPos)
  IN  target # NULL /\ unitType[target] = "FLAG"

findFlagCaptureMoves(b, allMoves) ==
  SelectSeq(allMoves, LAMBDA move : hasFlagTarget(b, move))

RECURSIVE findWinningBattles(_, _, _, _)
\* the loop of findWinningBattles over allMoves[i..]: the candidates found
\* and isRevealed after the resolveBattle calls
findWinningBattles(b, allMoves, i, revealed) ==
  IF i > Len(allMoves)
  THEN [ winningMoves |-> << >>, isRevealed |-> revealed ]
  ELSE LET move == allMoves[i]
           attacker == getCharacter(b, move.fromPos)
           target == getCharacter(b, move.toPos)
       IN  IF target = NULL
           THEN findWinningBattles(b, allMoves, i + 1, revealed)
           ELSE LET br == resolveBattle(attacker, target, revealed)
                    rest == findWinningBattles(b, allMoves, i + 1, br.isRevealed)
                    targetPriority == IF br.isRevealed[target]
                                      THEN priority(unitType[target]) ELSE 10
                IN  IF attackerWins(br.result)
                    THEN [ winningMoves |->
                             << [ move |-> move, priority |-> targetPriority ] >>
                             \o rest.winningMoves,
                           isRevealed |-> rest.isRevealed ]
                    ELSE rest

\* winningBattles.sort((a, b) => b.priority - a.priority)[0].move: the sort
\* is stable, so the first candidate of the largest priority number
firstAfterSort(winningBattles) ==
  LET best == CHOOSE i \in 1 .. Len(winningBattles) :
                /\ \A j \in 1 .. Len(winningBattles) :
                     winningBattles[j].priority <= winningBattles[i].priority
                /\ \A j \in 1 .. i - 1 :
                     winningBattles[j].priority < winningBattles[i].priority
  IN  winningBattles[best].move

\* findMyFlag: <<pos>> of the first cell, row-major, holding p's FLAG
findMyFlag(b, p) ==
  LET hits == SelectSeq(CellSeq, LAMBDA pos :
                 LET char == getCharacter(b, pos)
                 IN  char # NULL /\ playerId(char) = p /\ unitType[char] = "FLAG")
  IN  IF hits = << >> THEN << >> ELSE << hits[1] >>

abs(x) == IF x < 0 THEN -x ELSE x

isAdjacent(pos1, pos2) ==
  abs(pos1.row - pos2.row) + abs(pos1.col - pos2.col) = 1

findDefensiveMoves(b, allMoves, p) ==
  LET flagPos == findMyFlag(b, p)
  IN  IF flagPos = << >> THEN << >>
      ELSE SelectSeq(allMoves, LAMBDA move : isAdjacent(move.toPos, flagPos[1]))

RECURSIVE findSafeAttacks(_, _, _, _)
findSafeAttacks(b, allMoves, i, revealed) ==
  IF i > Len(allMoves)
  THEN [ safeMoves |-> << >>, isRevealed |-> revealed ]
  ELSE LET move == allMoves[i]
           attacker == getCharacter(b, move.fromPos)
           target == getCharacter(b, move.toPos)
       IN  IF target = NULL
           THEN findSafeAttacks(b, allMoves, i + 1, revealed)
           ELSE IF ~revealed[target]
           THEN LET rest == findSafeAttacks(b, allMoves, i + 1, revealed)
                IN  IF priority(unitType[attacker]) <= 8
                    THEN [ rest EXCEPT !.safeMoves = << move >> \o @ ]
                    ELSE rest
           ELSE LET br == resolveBattle(attacker, target, revealed)
                    rest == findSafeAttacks(b, allMoves, i + 1, br.isRevealed)
                IN  IF ~defenderWins(br.result)
                    THEN [ rest EXCEPT !.safeMoves = << move >> \o @ ]
                    ELSE rest

findForwardMoves(b, allMoves, p) ==
  LET direction == IF p = 0 THEN 1 ELSE -1
  IN  SelectSeq(allMoves, LAMBDA move :
        /\ getCharacter(b, move.toPos) = NULL
        /\ (move.toPos.row - move.fromPos.row) * direction > 0)

\* randomChoice(array): every element it may return, as <<m>>
randomChoice(array) == { << m >> : m \in Range(array) }

\* BasicAI.getMove for the agent of player p: the values it may return
\* (<< >> is null) and the units' isRevealed when it returns
BasicAI_getMove(b, alive, revealed, p) ==
  LET allMoves == getAllValidMoves(b, alive, p)
      flagCaptureMoves == findFlagCaptureMoves(b, allMoves)
      winning == findWinningBattles(b, allMoves, 1, revealed)
      defensiveMoves == findDefensiveMoves(b, allMoves, p)
      safe == findSafeAttacks(b, allMoves, 1, winning.isRevealed)
      forwardMoves == findForwardMoves(b, allMoves, p)
  IN  IF Len(allMoves) = 0
      THEN [ moves |-> { << >> }, isRevealed |-> revealed ]
      ELSE IF Len(flagCaptureMoves) > 0
      THEN [ moves |-> randomChoice(flagCaptureMoves), isRevealed |-> revealed ]
      ELSE IF Len(winning.winningMoves) > 0
      THEN [ moves |-> { << firstAfterSort(winning.winningMoves) >> },
             isRevealed |-> winning.isRevealed ]
      ELSE IF Len(defensiveMoves) > 0
      THEN [ moves |-> randomChoice(defensiveMoves),
             isRevealed |-> winning.isRevealed ]
      ELSE IF Len(safe.safeMoves) > 0
      THEN [ moves |-> randomChoice(safe.safeMoves), isRevealed |-> safe.isRevealed ]
      ELSE IF Len(forwardMoves) > 0
      THEN [ moves |-> randomChoice(forwardMoves), isRevealed |-> safe.isRevealed ]
      ELSE [ moves |-> randomChoice(allMoves), isRevealed |-> safe.isRevealed ]

\* ------------------------------------------------------------ setup
\* The kinds a side may field, in createFullTeam's role: a side's units are
\* the first TeamSize kinds of one of these lists.
TeamChoices ==
  { << "FLAG", "MP", "BOMB_1", "GENERAL_5", "ENGINEER" >>,
    << "FLAG", "ENGINEER", "BOMB_1", "GENERAL_5", "MP" >>,
    << "FLAG", "WUKONG_1", "BOMB_2", "COLONEL", "GENERAL_1" >>,
    << "FLAG", "GENERAL_5", "BOMB_1", "WUKONG_2", "CORPORAL" >> }

\* every outcome of GameBoard.shuffle on the index array 0..TeamSize-1
shuffle == Permutations(1 .. TeamSize)

\* new GameBoard() followed by setupBoard(): aiPositions / playerPositions
\* are the two shuffled index arrays
setupBoard(aiPositions, playerPositions) ==
  [ board |-> [ pos \in Cells |->
                  IF pos.row = 0
                  THEN TeamUnit(0, aiPositions[pos.col + 1])
                  ELSE IF pos.row = ROWS - 1
                  THEN TeamUnit(1, playerPositions[pos.col + 1])
                  ELSE NULL ],
    currentPlayer |-> 1,
    gameOver |-> FALSE,
    winner |-> << >>,
    lastBattle |-> << >> ]

\* op: the operation; on: the board it was called on; ok: its boolean
\* result; move: << >>, or <<m>> for a move an agent returned
Called(op, on, ok, move) == [ op |-> op, on |-> on, ok |-> ok, move |-> move ]

\* no MCTSAI.getMove call is running and none has been made
mctsIdle ==
  /\ pc = "idle"
  /\ atCall = << >>
  /\ movesAtCall = << >>
  /\ round = 0
  /\ moveScores = << >>
  /\ tree = << >>
  /\ iterations = 0
  /\ node = 0
  /\ simBoard = << >>
  /\ moves = 0
  /\ result = << >>

\* the App has not been mounted: its state is what useState gives it
appIdle ==
  /\ heap = << >>
  /\ gameBoard = 0
  /\ gameState = << >>
  /\ selectedCell = << >>
  /\ validMovesShown = << >>
  /\ loading = FALSE
  /\ timers = { }

Init ==
  /\ \E aiTeam \in TeamChoices, playerTeam \in TeamChoices :
       unitType = [ u \in Units |->
                      IF playerId(u) = 0 THEN aiTeam[u]
                      ELSE playerTeam[u - TeamSize] ]
  /\ isAlive = [ u \in Units |-> TRUE ]
  /\ isRevealed = [ u \in Units |-> FALSE ]
  /\ \E aiPositions \in shuffle, playerPositions \in shuffle :
       game = setupBoard(aiPositions, playerPositions)
  /\ copy = << >>
  /\ cloneMoves = 0
  /\ plies = 0
  /\ last = Called("setupBoard", "game", TRUE, << >>)
  /\ battle = << >>
  /\ mctsIdle
  /\ appIdle

\* ------------------------------------------------------------ operations
\* Moves a caller may pass.  Origins: every cell, and one position off the
\* board.  Destinations: the origin itself, its four neighbours (on or off
\* the board), one diagonal and one position two steps away.
FromInputs == Cells \cup { Position(-1, 0) }
ToDeltas == { << 0, 0 >>, << -1, 0 >>, << 1, 0 >>, << 0, -1 >>, << 0, 1 >>,
              << 1, 1 >>, << 2, 0 >> }
MoveInputs ==
  { Move(f, Position(f.row + d[1], f.col + d[2])) : f \in FromInputs, d \in ToDeltas }

\* gameBoard.makeMove(move) on the live board
GameMove(move) ==
  /\ plies < MaxPlies
  /\ LET r == makeMove(game, isAlive, isRevealed, move)
     IN  /\ game' = r.board
         /\ isAlive' = r.isAlive
         /\ isRevealed' = r.isRevealed
         /\ plies' = IF r.ok THEN plies + 1 ELSE plies
         /\ last' = Called("makeMove", "game", r.ok, << >>)
  /\ UNCHANGED << unitType, copy, cloneMoves, battle >>
  /\ UNCHANGED mctsVars
  /\ UNCHANGED appVars

\* copy = gameBoard.clone()
Clone ==
  /\ copy' = << clone(game) >>
  /\ cloneMoves' = 0
  /\ last' = Called("clone", "game", TRUE, << >>)
  /\ UNCHANGED << unitType, isAlive, isRevealed, game, plies, battle >>
  /\ UNCHANGED mctsVars
  /\ UNCHANGED appVars

\* copy.makeMove(move) on the clone
CloneMove(move) ==
  /\ copy # << >>
  /\ cloneMoves < MaxCloneMoves
  /\ LET r == makeMove(copy[1], isAlive, isRevealed, move)
     IN  /\ copy' = << r.board >>
         /\ isAlive' = r.isAlive
         /\ isRevealed' = r.isRevealed
         /\ cloneMoves' = IF r.ok THEN cloneMoves + 1 ELSE cloneMoves
         /\ last' = Called("makeMove", "copy", r.ok, << >>)
  /\ UNCHANGED << unitType, game, plies, battle >>
  /\ UNCHANGED mctsVars
  /\ UNCHANGED appVars

\* new BasicAI(p).getMove(gameBoard)
BasicGetMove(p) ==
  /\ LET r == BasicAI_getMove(game, isAlive, isRevealed, p)
     IN  /\ isRevealed' = r.isRevealed
         /\ \E m \in r.moves : last' = Called("BasicAI.getMove", "game", m # << >>, m)
  /\ UNCHANGED << unitType, isAlive, game, copy, cloneMoves, plies, battle >>
  /\ UNCHANGED mctsVars
  /\ UNCHANGED appVars

Next ==
  \/ \E move \in MoveInputs : GameMove(move)
  \/ Clone
  \/ \E move \in MoveInputs : CloneMove(move)
  \/ \E p \in {0, 1} : BasicGetMove(p)

Spec == Init /\ [][Next]_vars

\* ------------------------------------------------- the resolver alone
\* resolveBattle(attacker, defender) called directly on two units of any
\* kinds, revealed or not: attacker is unit Attacker, defender unit Defender.
Attacker == TeamUnit(0, 1)
Defender == TeamUnit(1, 1)

identity == [ i \in 1 .. TeamSize |-> i ]

InitBattle ==
  /\ \E a \in Kinds, d \in Kinds :
       unitType = [ u \in Units |->
                      IF u = Attacker THEN a
                      ELSE IF u = Defender THEN d ELSE "CORPORAL" ]
  /\ isAlive = [ u \in Units |-> TRUE ]
  /\ \E ra \in BOOLEAN, rd \in BOOLEAN :
       isRevealed = [ u \in Units |->
                        IF u = Attacker THEN ra
                        ELSE IF u = Defender THEN rd ELSE FALSE ]
  /\ game = setupBoard(identity, identity)
  /\ copy = << >>
  /\ cloneMoves = 0
  /\ plies = 0
  /\ last = Called("setupBoard", "game", TRUE, << >>)
  /\ battle = << >>
  /\ mctsIdle
  /\ appIdle

Resolve ==
  /\ battle = << >>
  /\ LET r == resolveBattle(Attacker, Defender, isRevealed)
     IN  /\ battle' = << r.result >>
         /\ isRevealed' = r.isRevealed
  /\ last' = Called("resolveBattle", "game", TRUE, << >>)
  /\ UNCHANGED << unitType, isAlive, game, copy, cloneMoves, plies >>
  /\ UNCHANGED mctsVars
  /\ UNCHANGED appVars

NextBattle == Resolve

SpecBattle == InitBattle /\ [][NextBattle]_vars


\* ------------------------------------------------- BasicAI on a position
\* BasicAI.getMove(board) called on a position of a game in play: the two
\* sides' units face each other in rows 0 and 1, player 0 is on turn.  A
\* side's units are distinct kinds of createFullTeam, any of MidgameKinds;
\* the enemy's units may have been revealed by earlier battles.
MidgameKinds ==
  { "GENERAL_5", "COLONEL", "CORPORAL", "ENGINEER", "WUKONG_1", "MP",
    "BOMB_1", "FLAG" }

midgameBoard ==
  [ board |-> [ pos \in Cells |->
                  IF pos.row = 0 THEN TeamUnit(0, pos.col + 1)
                  ELSE IF pos.row = 1 THEN TeamUnit(1, pos.col + 1)
                  ELSE NULL ],
    currentPlayer |-> 0,
    gameOver |-> FALSE,
    winner |-> << >>,
    lastBattle |-> << >> ]

InitBasic ==
  /\ unitType \in [ Units -> MidgameKinds ]
  /\ \A u, v \in Units :
       (u # v /\ playerId(u) = playerId(v)) => unitType[u] # unitType[v]
  /\ isAlive = [ u \in Units |-> TRUE ]
  /\ isRevealed \in [ Units -> BOOLEAN ]
  /\ \A u \in Units : playerId(u) = 0 => ~isRevealed[u]
  /\ game = midgameBoard
  /\ copy = << >>
  /\ cloneMoves = 0
  /\ plies = 0
  /\ last = Called("setupBoard", "game", TRUE, << >>)
  /\ battle = << >>
  /\ mctsIdle
  /\ appIdle

NextBasic == \E p \in {0, 1} : BasicGetMove(p)

SpecBasic == InitBasic /\ [][NextBasic]_vars

\* ------------------------------------------------- one board in play
\* A game played on one board by makeMove calls alone: no clone is taken
\* and no agent is asked.  A side fields any two distinct kinds of
\* PlayKinds, at least one of which can move (createFullTeam gives every
\* side 18 kinds that can).
PlayKinds == { "FLAG", "BOMB_1", "GENERAL_5", "ENGINEER", "CORPORAL" }

InitPlay ==
  /\ unitType \in [ Units -> PlayKinds ]
  /\ \A u, v \in Units :
       (u # v /\ playerId(u) = playerId(v)) => unitType[u] # unitType[v]
  /\ \A p \in {0, 1} :
       \E u \in Units : playerId(u) = p /\ canMove(unitType[u])
  /\ isAlive = [ u \in Units |-> TRUE ]
  /\ isRevealed = [ u \in Units |-> FALSE ]
  /\ \E aiPositions \in shuffle, playerPositions \in shuffle :
       game = setupBoard(aiPositions, playerPositions)
  /\ copy = << >>
  /\ cloneMoves = 0
  /\ plies = 0
  /\ last = Called("setupBoard", "game", TRUE, << >>)
  /\ battle = << >>
  /\ mctsIdle
  /\ appIdle

NextPlay == \E move \in MoveInputs : GameMove(move)

SpecPlay == InitPlay /\ [][NextPlay]_vars

\* ------------------------------------------------- setup at full size
\* new GameBoard() and setupBoard() as the source has them: a 9 x 7 board,
\* two teams of createFullTeam and two Fisher-Yates shuffles.  Units are
\* 1..42, the first 21 are aiTeam (player 0) in createFullTeam's order.
GameBoardROWS == 9
GameBoardCOLS == 7
HomeRows == 3
FullTeamLength == 21

createFullTeam ==
  << "GENERAL_5", "GENERAL_4", "GENERAL_3", "GENERAL_2", "GENERAL_1",
     "COLONEL", "LT_COLONEL", "MAJOR", "CAPTAIN", "FIRST_LT", "SECOND_LT",
     "MASTER_SGT", "SGT", "CORPORAL",
     "BOMB_1", "BOMB_2", "ENGINEER", "WUKONG_1", "WUKONG_2", "FLAG", "MP" >>

FullUnits == 1 .. 2 * Len(createFullTeam)
FullCells ==
  { Position(r, c) : r \in 0 .. GameBoardROWS - 1, c \in 0 .. GameBoardCOLS - 1 }

\* aiTeam[charIdx] and playerTeam[charIdx], charIdx counted from 0
aiTeam(charIdx) == charIdx + 1
playerTeam(charIdx) == Len(createFullTeam) + charIdx + 1

\* Array.from({ length: 21 }, (_, i) => i); element k of the sequence is
\* the source's array[k - 1]
indexArray == [ k \in 1 .. FullTeamLength |-> k - 1 ]

\* an exchange that copies one way only: array[i] = array[j]
shuffleCopies(array, i, j) == [ array EXCEPT ![i + 1] = array[j + 1] ]

\* [array[i], array[j]] = [array[j], array[i]]
shuffleSwap(array, i, j) ==
  [ array EXCEPT ![i + 1] = array[j + 1], ![j + 1] = array[i + 1] ]

RECURSIVE shuffleFrom(_, _, _)
\* the loop of GameBoard.shuffle from index i down to 1; random[i] is the
\* value of Math.floor(Math.random() * (i + 1)) in the pass for i
shuffleFrom(array, random, i) ==
  IF i <= 0 THEN array
  ELSE shuffleFrom(shuffleSwap(array, i, random[i]), random, i - 1)

\* GameBoard.shuffle(array) with the random numbers it draws
shuffleArray(array, random) == shuffleFrom(array, random, Len(array) - 1)

\* the random numbers of one shuffle: random[i] is in 0..i
RandomDraws ==
  { [ i \in 1 .. FullTeamLength - 1 |-> (a * (i \div 2) + c) % (i + 1) ] :
      a \in 0 .. MaxDraw, c \in 0 .. MaxDraw }

\* new GameBoard()
newGameBoard ==
  [ board |-> [ pos \in FullCells |-> NULL ],
    currentPlayer |-> 1,
    gameOver |-> FALSE,
    winner |-> << >>,
    lastBattle |-> << >> ]

\* setupBoard() on board b, the two shuffles drawing random0 and random1
setupBoardShuffled(b, random0, random1) ==
  LET aiPositions == shuffleArray(indexArray, random0)
      playerPositions == shuffleArray(indexArray, random1)
  IN  [ b EXCEPT !.board =
          [ pos \in FullCells |->
              IF pos.row < HomeRows
              THEN aiTeam(aiPositions[pos.row * GameBoardCOLS + pos.col + 1])
              ELSE IF pos.row >= GameBoardROWS - HomeRows
              THEN playerTeam(playerPositions[
                     (pos.row - (GameBoardROWS - HomeRows)) * GameBoardCOLS
                       + pos.col + 1])
              ELSE b.board[pos] ] ]

\* const board = new GameBoard(), the units as their constructor leaves them
InitSetup ==
  /\ unitType = [ u \in FullUnits |->
                    IF u <= Len(createFullTeam) THEN createFullTeam[u]
                    ELSE createFullTeam[u - Len(createFullTeam)] ]
  /\ isAlive = [ u \in FullUnits |-> TRUE ]
  /\ isRevealed = [ u \in FullUnits |-> FALSE ]
  /\ game = newGameBoard
  /\ copy = << >>
  /\ cloneMoves = 0
  /\ plies = 0
  /\ last = Called("GameBoard", "game", TRUE, << >>)
  /\ battle = << >>
  /\ mctsIdle
  /\ appIdle

\* board.setupBoard()
SetupBoard ==
  /\ last.op = "GameBoard"
  /\ \E random0 \in RandomDraws, random1 \in RandomDraws :
       game' = setupBoardShuffled(game, random0, random1)
  /\ last' = Called("setupBoard", "game", TRUE, << >>)
  /\ UNCHANGED << unitType, isAlive, isRevealed, copy, cloneMoves, plies,
                  battle >>
  /\ UNCHANGED mctsVars
  /\ UNCHANGED appVars

NextSetup == SetupBoard

SpecSetup == InitSetup /\ [][NextSetup]_vars

\* ------------------------------------------------------------ MCTSAI
\* new MCTSNode(board, move, parent).  move is << >> (null) or <<m>>, parent
\* is 0 (null) or the parent's index in tree; wins is counted in halves, so
\* that wins++ adds 2 and wins += 0.5 adds 1.
MCTSNode(board, move, parent, alive) ==
  LET b == clone(board)
  IN  [ board |-> b,
        move |-> move,
        parent |-> parent,
        children |-> << >>,
        wins |-> 0,
        visits |-> 0,
        untriedMoves |-> IF ~b.gameOver
                         THEN getAllValidMoves(b, alive, b.currentPlayer)
                         ELSE << >> ]

\* child c2 of a node is certainly preferred to child c by bestChild's
\* reduce: with equal visits the larger wins decide and the earlier child
\* keeps a tie; with fewer visits the exploration term is larger, so an
\* exploitation term that is no smaller suffices.  (A parent with one visit
\* has one child.)
uctPreferred(t, children, i2, i) ==
  LET c2 == t[children[i2]]
      c == t[children[i]]
  IN  \/ c2.visits = c.visits /\ (c2.wins > c.wins \/ (c2.wins = c.wins /\ i2 < i))
      \/ c2.visits < c.visits /\ c2.wins * c.visits >= c.wins * c2.visits

\* MCTSNode.bestChild: the children it may return.  uctValue is a floating
\* point expression in sqrt and log; a child is kept unless another one is
\* certainly preferred to it.
bestChild(t, n) ==
  LET children == t[n].children
  IN  { children[i] : i \in { j \in 1 .. Len(children) :
          ~\E j2 \in 1 .. Len(children) :
              j2 # j /\ uctPreferred(t, children, j2, j) } }

\* MCTSNode.mostVisitedChild: the first child of the largest visits
mostVisitedChild(t, n) ==
  LET children == t[n].children
      best == CHOOSE i \in 1 .. Len(children) :
                /\ \A j \in 1 .. Len(children) :
                     t[children[j]].visits <= t[children[i]].visits
                /\ \A j \in 1 .. i - 1 :
                     t[children[j]].visits < t[children[i]].visits
  IN  children[best]

RECURSIVE selection(_, _)
\* 1. Selection: the nodes at which the loop may stop when it stands at n
selection(t, n) ==
  IF Len(t[n].untriedMoves) = 0 /\ Len(t[n].children) > 0
  THEN UNION { selection(t, c) : c \in bestChild(t, n) }
  ELSE { n }

\* a backpropagation that stops at the simulated node
backpropagateNodeOnly(t, n, res, p) ==
  IF n = 0 THEN t
  ELSE [ t EXCEPT ![n].visits = @ + 1,
                  ![n].wins = IF res = p THEN @ + 2
                              ELSE IF res = -1 THEN @ + 1
                              ELSE @ ]

RECURSIVE backpropagate(_, _, _, _)
\* 4. Backpropagation from node n up to the root
backpropagate(t, n, res, p) ==
  IF n = 0 THEN t
  ELSE backpropagate(
         [ t EXCEPT ![n].visits = @ + 1,
                    ![n].wins = IF res = p THEN @ + 2
                                ELSE IF res = -1 THEN @ + 1
                                ELSE @ ],
         t[n].parent, res, p)

\* MCTSAI.selectSimulationMove: the values it may return
selectSimulationMove(b, all) ==
  LET flagMoves == SelectSeq(all, LAMBDA move : hasFlagTarget(b, move))
  IN  IF Len(flagMoves) > 0 THEN { << flagMoves[1] >> }
      ELSE IF Len(all) > 0 THEN randomChoice(all)
      ELSE { << >> }

\* the key `${fromPos.row},${fromPos.col}->${toPos.row},${toPos.col}`, as
\* the numbers it spells
moveKey(move) ==
  << move.fromPos.row, move.fromPos.col, move.toPos.row, move.toPos.col >>

\* the object { fromPos, toPos } parsed back from a key
parseMoveKey(key) ==
  [ fromPos |-> [ row |-> key[1], col |-> key[2] ],
    toPos |-> [ row |-> key[3], col |-> key[4] ] ]

\* moveScores[moveKey] = (moveScores[moveKey] || 0) + 1
addScore(scores, key) ==
  IF \E i \in 1 .. Len(scores) : scores[i].key = key
  THEN [ i \in 1 .. Len(scores) |->
           IF scores[i].key = key
           THEN [ scores[i] EXCEPT !.score = @ + 1 ] ELSE scores[i] ]
  ELSE Append(scores, [ key |-> key, score |-> 1 ])

RECURSIVE reduceScores(_, _, _)
\* Object.keys(moveScores).reduce((a, b) => moveScores[a] > moveScores[b]
\* ? a : b), from accumulator a over the keys b, b + 1, ...
reduceScores(scores, a, b) ==
  IF b > Len(scores) THEN a
  ELSE reduceScores(scores,
                    IF scores[a].score > scores[b].score THEN a ELSE b,
                    b + 1)

bestMoveKey(scores) == scores[reduceScores(scores, 1, 2)].key

\* the agent the session constructs: new MCTSAI(0, 1.5), with the
\* constructor's default number of rounds
playerIdOfMCTSAI == 0
determinizations == 3

\* a legal move is played on the live board before the agent is asked
OpeningMove(move) ==
  /\ pc = "idle"
  /\ atCall = << >>
  /\ plies < MaxOpening
  /\ makeMove(game, isAlive, isRevealed, move).ok
  /\ GameMove(move)

\* ai.getMove(gameBoard) is called: the allMoves test, and the start of the
\* loop over the rounds
MctsGetMove ==
  /\ pc = "idle"
  /\ atCall = << >>
  /\ atCall' = << [ game |-> game, isAlive |-> isAlive,
                    isRevealed |-> isRevealed ] >>
  /\ LET all == getAllValidMoves(game, isAlive, playerIdOfMCTSAI)
     IN  IF Len(all) = 0
         THEN /\ last' = Called("MCTSAI.getMove", "game", FALSE, << >>)
              /\ UNCHANGED << pc, movesAtCall >>
         ELSE /\ pc' = "round"
              /\ movesAtCall' = all
              /\ UNCHANGED last
  /\ round' = 0
  /\ moveScores' = << >>
  /\ UNCHANGED << unitType, isAlive, isRevealed, game, copy, cloneMoves,
                  plies, battle, tree, iterations, node, simBoard, moves,
                  result >>
  /\ UNCHANGED appVars

\* a round begins: determinizeBoard(board), then mctsSearch builds its root
MctsRound ==
  /\ pc = "round"
  /\ round < determinizations
  /\ LET determinizedBoard == clone(game)
         root == MCTSNode(determinizedBoard, << >>, 0, isAlive)
     IN  tree' = << root >>
  /\ iterations' = 0
  /\ pc' = "search"
  /\ UNCHANGED << unitType, isAlive, isRevealed, game, copy, cloneMoves,
                  plies, last, battle, atCall, movesAtCall, round, moveScores,
                  node, simBoard, moves,
                  result >>
  /\ UNCHANGED appVars

\* one pass of mctsSearch's loop, up to the clone simulate starts from:
\* selection, then expansion if the selected node has untried moves
MctsSelectExpand ==
  /\ pc = "search"
  /\ iterations < MaxIterations
  /\ \E n \in selection(tree, 1) :
       IF Len(tree[n].untriedMoves) > 0
       THEN \E m \in randomChoice(tree[n].untriedMoves) :
              LET move == m[1]
                  r == makeMove(clone(tree[n].board), isAlive, isRevealed, move)
                  childNode == MCTSNode(r.board, << move >>, n, r.isAlive)
                  child == Len(tree) + 1
              IN  /\ tree' = Append(
                       [ tree EXCEPT
                           ![n].untriedMoves = SelectSeq(@, LAMBDA x : x # move),
                           ![n].children = Append(@, child) ],
                       childNode)
                  /\ node' = child
                  /\ isAlive' = r.isAlive
                  /\ isRevealed' = r.isRevealed
                  /\ simBoard' = << clone(childNode.board) >>
       ELSE /\ node' = n
            /\ simBoard' = << clone(tree[n].board) >>
            /\ UNCHANGED << tree, isAlive, isRevealed >>
  /\ moves' = 0
  /\ result' = << >>
  /\ pc' = "simulate"
  /\ UNCHANGED << unitType, game, copy, cloneMoves, plies, last, battle,
                  atCall, movesAtCall, round, moveScores, iterations >>
  /\ UNCHANGED appVars

\* a loop condition without the cap: while (!simBoard.isGameOver())
simulateContinuesUncapped ==
  /\ ~simBoard[1].gameOver
  /\ Len(getAllValidMoves(simBoard[1], isAlive, simBoard[1].currentPlayer)) > 0

\* simulate's loop may go on: the playout is not over, the cap is not
\* reached and the player to move has a move
simulateContinues ==
  /\ ~simBoard[1].gameOver
  /\ moves < maxMoves
  /\ Len(getAllValidMoves(simBoard[1], isAlive, simBoard[1].currentPlayer)) > 0

\* one pass of simulate's loop
MctsSimulateStep ==
  /\ pc = "simulate"
  /\ simulateContinues
  /\ LET all == getAllValidMoves(simBoard[1], isAlive, simBoard[1].currentPlayer)
     IN  \E m \in selectSimulationMove(simBoard[1], all) :
           IF m # << >>
           THEN LET r == makeMove(simBoard[1], isAlive, isRevealed, m[1])
                IN  /\ simBoard' = << r.board >>
                    /\ isAlive' = r.isAlive
                    /\ isRevealed' = r.isRevealed
           ELSE UNCHANGED << simBoard, isAlive, isRevealed >>
  /\ moves' = moves + 1
  /\ UNCHANGED << unitType, game, copy, cloneMoves, plies, last, battle, pc,
                  atCall, movesAtCall, round, moveScores, tree, iterations, node,
                  result >>
  /\ UNCHANGED appVars

\* what simulate returns when its loop has ended
simulateResult(b) == IF b.gameOver THEN b.winner[1] ELSE -1

\* simulate returns and its result is backpropagated; iterations++
MctsBackpropagate ==
  /\ pc = "simulate"
  /\ ~simulateContinues
  /\ result' = << simulateResult(simBoard[1]) >>
  /\ tree' = backpropagate(tree, node, simulateResult(simBoard[1]),
                           playerIdOfMCTSAI)
  /\ iterations' = iterations + 1
  /\ simBoard' = << >>
  /\ pc' = "search"
  /\ UNCHANGED << unitType, isAlive, isRevealed, game, copy, cloneMoves,
                  plies, last, battle, atCall, movesAtCall, round, moveScores,
                  node, moves >>
  /\ UNCHANGED appVars

\* Date.now() < endTime fails: mctsSearch returns its bestMove, getMove
\* scores it and goes to the next round
MctsSearchEnd ==
  /\ pc = "search"
  /\ LET bestMove == IF Len(tree[1].children) > 0
                     THEN tree[mostVisitedChild(tree, 1)].move
                     ELSE << >>
     IN  moveScores' = IF bestMove # << >>
                       THEN addScore(moveScores, moveKey(bestMove[1]))
                       ELSE moveScores
  /\ round' = round + 1
  /\ tree' = << >>
  /\ iterations' = 0
  /\ node' = 0
  /\ result' = << >>
  /\ pc' = "round"
  /\ UNCHANGED << unitType, isAlive, isRevealed, game, copy, cloneMoves,
                  plies, last, battle, atCall, movesAtCall, simBoard, moves >>
  /\ UNCHANGED appVars

\* the rounds are over: getMove returns the vote's move, or a random one of
\* allMoves when moveScores is empty
MctsReturn ==
  /\ pc = "round"
  /\ round >= determinizations
  /\ IF Len(moveScores) = 0
     THEN \E m \in randomChoice(movesAtCall) :
            last' = Called("MCTSAI.getMove", "game", TRUE, m)
     ELSE last' = Called("MCTSAI.getMove", "game", TRUE,
                         << parseMoveKey(bestMoveKey(moveScores)) >>)
  /\ pc' = "idle"
  /\ UNCHANGED << unitType, isAlive, isRevealed, game, copy, cloneMoves,
                  plies, battle, atCall, movesAtCall, round, moveScores, tree,
                  iterations, node, simBoard, moves,
                  result >>
  /\ UNCHANGED appVars

\* if (aiMove) gameBoard.makeMove(aiMove)
AgentMove ==
  /\ pc = "idle"
  /\ last.op = "MCTSAI.getMove"
  /\ last.move # << >>
  /\ LET r == makeMove(game, isAlive, isRevealed, last.move[1])
     IN  /\ game' = r.board
         /\ isAlive' = r.isAlive
         /\ isRevealed' = r.isRevealed
         /\ plies' = IF r.ok THEN plies + 1 ELSE plies
         /\ last' = Called("makeMove", "game", r.ok, << >>)
  /\ UNCHANGED << unitType, copy, cloneMoves, battle >>
  /\ UNCHANGED mctsVars
  /\ UNCHANGED appVars

\* new BasicAI(0).getMove(gameBoard), the session's other agent, asked
\* before the MCTS agent is
BasicAgentGetMove ==
  /\ pc = "idle"
  /\ atCall = << >>
  /\ BasicGetMove(playerIdOfMCTSAI)

NextMCTS ==
  \/ BasicAgentGetMove
  \/ \E move \in MoveInputs : OpeningMove(move)
  \/ MctsGetMove
  \/ MctsRound
  \/ MctsSelectExpand
  \/ MctsSimulateStep
  \/ MctsBackpropagate
  \/ MctsSearchEnd
  \/ MctsReturn
  \/ AgentMove

\* a board in play on which the agents are asked for a move: BasicAI in
\* one step, one MCTSAI.getMove call step by step
SpecMCTS == Init /\ [][NextMCTS]_vars

\* the agent's steps under the scheduling of the code: simulate is one
\* synchronous call, so its loop body and its return are always taken
SpecMCTSFair ==
  /\ SpecMCTS
  /\ WF_vars(MctsSimulateStep)
  /\ WF_vars(MctsBackpropagate)

\* --------------------------------------------------------------- App
\* The orchestrator (src/unnamed/part_000).  A GameBoard object is an entry
\* of heap: the board with the isAlive / isRevealed of its own units (every
\* new GameBoard() creates its own Character objects).  A callback given to
\* setTimeout is [fn, board, move]: board is the gameBoard its closure
\* captured, as an index into heap.  aiDifficulty keeps its initial value
\* 'basic', so ai is new BasicAI(0).
HeapBoard(b, alive, revealed) ==
  [ game |-> b, isAlive |-> alive, isRevealed |-> revealed ]

Timer(fn, board, move) == [ fn |-> fn, board |-> board, move |-> move ]

\* what updateGameState(board) passes to setGameState
updateGameState(h) ==
  [ board |-> getBoardState(h.game, h.isAlive, h.isRevealed, unitType, 1),
    current_player |-> h.game.currentPlayer,
    game_over |-> h.game.gameOver,
    winner |-> h.game.winner,
    last_battle |-> h.game.lastBattle,
    valid_moves |-> IF h.game.currentPlayer = 1 /\ ~h.game.gameOver
                    THEN getAllValidMoves(h.game, h.isAlive, 1)
                    ELSE << >> ]

\* the App before its first game: useState's initial values, no timer set
InitApp ==
  /\ \E aiKinds \in TeamChoices, playerKinds \in TeamChoices :
       unitType = [ u \in Units |->
                      IF playerId(u) = 0 THEN aiKinds[u]
                      ELSE playerKinds[u - TeamSize] ]
  /\ isAlive = [ u \in Units |-> TRUE ]
  /\ isRevealed = [ u \in Units |-> FALSE ]
  /\ game = setupBoard(identity, identity)
  /\ copy = << >>
  /\ cloneMoves = 0
  /\ plies = 0
  /\ last = Called("App", "game", TRUE, << >>)
  /\ battle = << >>
  /\ mctsIdle
  /\ appIdle

\* startNewGame, from the menu's button or the new-game button
StartNewGame ==
  /\ Len(heap) < MaxGames
  /\ \E aiPositions \in shuffle, playerPositions \in shuffle :
       LET h == HeapBoard(setupBoard(aiPositions, playerPositions),
                          [ u \in Units |-> TRUE ],
                          [ u \in Units |-> FALSE ])
       IN  /\ heap' = Append(heap, h)
           /\ gameBoard' = Len(heap) + 1
           /\ gameState' = << updateGameState(h) >>
  /\ selectedCell' = << >>
  /\ validMovesShown' = << >>
  /\ last' = Called("startNewGame", "game", TRUE, << >>)
  /\ UNCHANGED << loading, timers >>
  /\ UNCHANGED << unitType, isAlive, isRevealed, game, copy, cloneMoves,
                  plies, battle >>
  /\ UNCHANGED mctsVars

\* handleCellClick(row, col) when it does not return at once; a click that
\* asks for a move runs App.makeMove, which sets loading and a timer
HandleCellClick(pos) ==
  /\ gameBoard # 0
  /\ ~gameState[1].game_over
  /\ gameState[1].current_player = 1
  /\ ~loading
  /\ LET cell == gameState[1].board[pos]
     IN  IF selectedCell = << pos >>
         THEN /\ selectedCell' = << >>
              /\ validMovesShown' = << >>
              /\ UNCHANGED << loading, timers, plies >>
         ELSE IF selectedCell # << >> /\ pos \in Range(validMovesShown)
         THEN /\ plies < MaxPlies
              /\ loading' = TRUE
              /\ timers' = timers \cup
                   { Timer("makeMove", gameBoard, << Move(selectedCell[1], pos) >>) }
              /\ plies' = plies + 1
              /\ UNCHANGED << selectedCell, validMovesShown >>
         ELSE IF cell # << >> /\ cell[1].player_id = 1 /\ cell[1].is_alive
         THEN /\ selectedCell' = << pos >>
              /\ validMovesShown' =
                   LET h == heap[gameBoard]
                       list == getValidMoves(h.game, h.isAlive, pos)
                   IN  [ i \in 1 .. Len(list) |-> list[i].toPos ]
              /\ UNCHANGED << loading, timers, plies >>
         ELSE /\ selectedCell' = << >>
              /\ validMovesShown' = << >>
              /\ UNCHANGED << loading, timers, plies >>
  /\ last' = Called("handleCellClick", "game", TRUE, << >>)
  /\ UNCHANGED << heap, gameBoard, gameState >>
  /\ UNCHANGED << unitType, isAlive, isRevealed, game, copy, cloneMoves,
                  battle >>
  /\ UNCHANGED mctsVars

\* the callback App.makeMove gave to setTimeout runs (r is what
\* gameBoard.makeMove returns and leaves behind, h2 the board afterwards)
MakeMoveCallback ==
  /\ \E t \in timers :
       /\ t.fn = "makeMove"
       /\ \E r \in { makeMove(heap[t.board].game, heap[t.board].isAlive,
                              heap[t.board].isRevealed, t.move[1]) } :
          \E h2 \in { HeapBoard(r.board, r.isAlive, r.isRevealed) } :
              /\ heap' = [ heap EXCEPT ![t.board] = h2 ]
              /\ last' = Called("makeMove", "game", r.ok, t.move)
              /\ IF r.ok
                 THEN /\ gameState' = << updateGameState(h2) >>
                      /\ selectedCell' = << >>
                      /\ validMovesShown' = << >>
                      /\ IF r.board.currentPlayer = 0 /\ ~r.board.gameOver
                         THEN /\ timers' = (timers \ { t }) \cup
                                   { Timer("makeAIMove", t.board, << >>) }
                              /\ UNCHANGED loading
                         ELSE /\ timers' = timers \ { t }
                              /\ loading' = FALSE
                 ELSE /\ loading' = FALSE
                      /\ timers' = timers \ { t }
                      /\ UNCHANGED << gameState, selectedCell, validMovesShown >>
  /\ UNCHANGED gameBoard
  /\ UNCHANGED << unitType, isAlive, isRevealed, game, copy, cloneMoves,
                  plies, battle >>
  /\ UNCHANGED mctsVars

\* makeAIMove, called by the timer that the accepted move of the player
\* has set
MakeAIMove ==
  /\ \E t \in timers :
       /\ t.fn = "makeAIMove"
       /\ timers' = (timers \ { t }) \cup { Timer("aiCallback", t.board, << >>) }
  /\ loading' = TRUE
  /\ last' = Called("makeAIMove", "game", TRUE, << >>)
  /\ UNCHANGED << heap, gameBoard, gameState, selectedCell, validMovesShown >>
  /\ UNCHANGED << unitType, isAlive, isRevealed, game, copy, cloneMoves,
                  plies, battle >>
  /\ UNCHANGED mctsVars

\* the callback makeAIMove gave to setTimeout runs: ai.getMove and, if it
\* returns a move, gameBoard.makeMove and updateGameState
AIMoveCallback ==
  /\ \E t \in timers :
       /\ t.fn = "aiCallback"
       /\ timers' = timers \ { t }
       /\ \E g \in { BasicAI_getMove(heap[t.board].game, heap[t.board].isAlive,
                                    heap[t.board].isRevealed, 0) } :
          \E aiMove \in g.moves :
                IF aiMove # << >>
                THEN \E r \in { makeMove(heap[t.board].game,
                                         heap[t.board].isAlive,
                                         g.isRevealed, aiMove[1]) } :
                     \E h2 \in { HeapBoard(r.board, r.isAlive, r.isRevealed) } :
                         /\ heap' = [ heap EXCEPT ![t.board] = h2 ]
                         /\ gameState' = << updateGameState(h2) >>
                         /\ last' = Called("ai.getMove", "game", TRUE, aiMove)
                ELSE /\ heap' = [ heap EXCEPT ![t.board].isRevealed = g.isRevealed ]
                     /\ last' = Called("ai.getMove", "game", FALSE, aiMove)
                     /\ UNCHANGED gameState
  /\ loading' = FALSE
  /\ UNCHANGED << gameBoard, selectedCell, validMovesShown >>
  /\ UNCHANGED << unitType, isAlive, isRevealed, game, copy, cloneMoves,
                  plies, battle >>
  /\ UNCHANGED mctsVars

NextApp ==
  \/ StartNewGame
  \/ \E pos \in Cells : HandleCellClick(pos)
  \/ MakeMoveCallback
  \/ MakeAIMove
  \/ AIMoveCallback

SpecApp == InitApp /\ [][NextApp]_vars

\* the callback of makeAIMove leaves the timers: the step of timers that
\* AIMoveCallback, and no other action, takes
AIMoveCallbackRuns ==
  \E t \in timers : t.fn = "aiCallback" /\ timers' = timers \ { t }

\* a callback given to setTimeout is run once its delay has passed; what
\* the user does is up to the user
SpecAppFair ==
  /\ SpecApp
  /\ WF_vars(MakeMoveCallback)
  /\ WF_vars(MakeAIMove)
  /\ WF_timers(AIMoveCallbackRuns)

\* ================================================================ claims
\* every board of the state: the live one and the clone, if any
Boards == { game } \cup Range(copy)

isMember(move, list) == \E i \in 1 .. Len(list) : list[i] = move

AcceptedOn(on) == last.op = "makeMove" /\ last.on = on /\ last.ok
RejectedOn(on) == last.op = "makeMove" /\ last.on = on /\ ~last.ok

\* C1: makeMove(move) returns true exactly when move is a member of
\* getValidMoves(move.fromPos); every other move is rejected and leaves the
\* grid, currentPlayer, gameOver, winner, lastBattle and every unit's
\* isAlive / isRevealed as they were.
C1_RejectsWithoutMutation ==
  \A b \in Boards : \A move \in MoveInputs :
    LET r == makeMove(b, isAlive, isRevealed, move)
        legal == isMember(move, getValidMoves(b, isAlive, move.fromPos))
    IN  /\ r.ok <=> legal
        /\ ~legal => /\ r.board = b
                     /\ r.isAlive = isAlive
                     /\ r.isRevealed = isRevealed

\* a rejected makeMove call has returned on the live board after play began
C1_Witness == RejectedOn("game") /\ plies > 0

\* C2: every accepted makeMove flips currentPlayer exactly once, whichever
\* branch it takes (empty cell, attacker wins, attacker loses, both die); a
\* rejected one leaves currentPlayer alone.
C2_TurnTogglesOnce ==
  \A b \in Boards : \A move \in MoveInputs :
    LET r == makeMove(b, isAlive, isRevealed, move)
    IN  r.board.currentPlayer =
          IF r.ok THEN 1 - b.currentPlayer ELSE b.currentPlayer

\* an accepted attack in which both units died has passed the turn
C2_Witness ==
  /\ AcceptedOn("game")
  /\ game.lastBattle # << >>
  /\ ~game.lastBattle[1].attackerSurvives
  /\ ~game.lastBattle[1].defenderSurvives
  /\ game.currentPlayer = 1

\* C3: an accepted move onto a FLAG ends the game: gameOver is true, winner
\* is the attacker's owner, the FLAG is dead and on no cell, and
\* lastBattle.defenderSurvives is false; every kind that can move wins
\* against a FLAG.
C3_FlagCaptureEndsGame ==
  /\ \A k \in Kinds : canMove(k) => attackerWins(resolveOutcome(k, "FLAG"))
  /\ \A b \in Boards : \A move \in MoveInputs :
       LET r == makeMove(b, isAlive, isRevealed, move)
           character == getCharacter(b, move.fromPos)
           target == getCharacter(b, move.toPos)
       IN  (r.ok /\ target # NULL /\ unitType[target] = "FLAG") =>
             /\ r.board.gameOver
             /\ r.board.winner = << playerId(character) >>
             /\ ~r.isAlive[target]
             /\ \A pos \in Cells : r.board.board[pos] # target
             /\ r.board.lastBattle # << >>
             /\ ~r.board.lastBattle[1].defenderSurvives

\* a FLAG has just been captured on the live board
C3_Witness ==
  /\ AcceptedOn("game")
  /\ game.gameOver
  /\ game.lastBattle # << >>
  /\ game.lastBattle[1].defender = "FLAG"
  /\ game.winner = << 1 - game.currentPlayer >>

\* C4: once gameOver is true no move is legal: getValidMoves is empty for
\* every position, getAllValidMoves is empty for both players and makeMove
\* rejects every move.
C4_NoMoveAfterGameOver ==
  game.gameOver =>
    /\ \A pos \in Cells : getValidMoves(game, isAlive, pos) = << >>
    /\ \A p \in {0, 1} : getAllValidMoves(game, isAlive, p) = << >>
    /\ \A move \in MoveInputs : ~makeMove(game, isAlive, isRevealed, move).ok

\* the units a board's grid refers to
UnitsOn(b) == { b.board[pos] : pos \in Cells } \ { NULL }

\* C5: a clone is independent of its original: a makeMove on the clone
\* changes nothing of the original (its fields, its units' isAlive and
\* isRevealed), and a makeMove on the original changes nothing observable
\* through the clone.
C5_CloneIndependent ==
  [][ /\ (last'.op = "makeMove" /\ last'.on = "copy") =>
           /\ game' = game
           /\ isAlive' = isAlive
           /\ isRevealed' = isRevealed
      /\ (last'.op = "makeMove" /\ last'.on = "game" /\ copy # << >>) =>
           /\ copy' = copy
           /\ \A u \in UnitsOn(copy[1]) :
                isAlive'[u] = isAlive[u] /\ isRevealed'[u] = isRevealed[u]
    ]_vars

\* MCTSAI.getMove has returned (a move or null) and nothing has run since
mctsReturned == pc = "idle" /\ last.op = "MCTSAI.getMove" /\ atCall # << >>

\* C6: MCTSAI.getMove(board) only reads or clones the board it is given:
\* when it returns, the passed board has the grid, currentPlayer, gameOver,
\* winner and lastBattle it had when getMove was called, and every unit on
\* it has the isAlive and isRevealed it had then.
C6_GetMoveLeavesBoardAlone ==
  mctsReturned =>
    /\ game = atCall[1].game
    /\ \A u \in UnitsOn(game) :
         /\ isAlive[u] = atCall[1].isAlive[u]
         /\ isRevealed[u] = atCall[1].isRevealed[u]

\* C7: resolveBattle is pure, so BasicAI.getMove, which simulates attacks
\* with it, leaves every unit's isAlive and isRevealed unchanged.
C7_GetMoveLeavesUnitsAlone ==
  [][ last'.op = "BasicAI.getMove" =>
        (isAlive' = isAlive /\ isRevealed' = isRevealed) ]_vars

\* the participants of an accepted attack that involves exactly one
\* MILITARY_POLICE unit: mp is that unit, enemy the other one
mpBattle(character, target) ==
  IF unitType[character] = "MP"
  THEN [ mp |-> character, enemy |-> target ]
  ELSE [ mp |-> target, enemy |-> character ]

\* C10: in a battle between a MILITARY_POLICE unit and another kind the
\* reveal is single-sided: after the move the enemy is revealed and the
\* MILITARY_POLICE unit's isRevealed is what it was before.
C10_SingleSidedReveal ==
  [][ \A move \in MoveInputs :
        LET r == makeMove(game, isAlive, isRevealed, move)
            character == getCharacter(game, move.fromPos)
            target == getCharacter(game, move.toPos)
            who == mpBattle(character, target)
        IN  ( /\ last'.op = "makeMove" /\ last'.on = "game" /\ last'.ok
              /\ r.ok /\ game' = r.board
              /\ target # NULL
              /\ (unitType[character] = "MP") # (unitType[target] = "MP") ) =>
                /\ isRevealed'[who.enemy]
                /\ isRevealed'[who.mp] = isRevealed[who.mp]
    ]_vars

\* C11: for every unit and every sequence of operations (setup, makeMove,
\* clone, an agent's getMove) isAlive only ever changes from true to false
\* and isRevealed only ever changes from false to true: no step revives a
\* unit or hides a revealed one, and reveal() on a revealed unit changes
\* nothing.
C11_FlagsMonotone ==
  [][ \A u \in Units :
        /\ isAlive'[u] => isAlive[u]
        /\ isRevealed[u] => isRevealed'[u] ]_vars

\* MCTSAI.getMove has returned after a search in which a unit was revealed
\* and died
C11_Witness ==
  mctsReturned /\ \E u \in Units : ~isAlive[u] /\ isRevealed[u]

\* the positions a caller may ask about: every cell and the ring of
\* positions just off the board
QueryPositions == { Position(r, c) : r \in -1 .. ROWS, c \in -1 .. COLS }

neighbours(pos) ==
  { Position(pos.row + directions[i][1], pos.col + directions[i][2]) :
      i \in 1 .. Len(directions) }

\* the destinations the claim allows from pos: on-board neighbours that are
\* empty or hold a unit of the opposing player
legalDestinations(b, pos) ==
  { to \in neighbours(pos) :
      /\ isValidPosition(to)
      /\ \/ b.board[to] = NULL
         \/ playerId(b.board[to]) # playerId(b.board[pos]) }

\* C12: getValidMoves(pos) is empty when pos is off-board, the cell is
\* empty, the unit there belongs to the player not on turn, or it is a FLAG
\* or BOMB; otherwise it is exactly the moves from pos to each orthogonal
\* neighbour that is on-board and empty or held by the opposing player.  It
\* never holds a move onto an own unit, a move of Manhattan distance other
\* than 1, or a move whose origin is a FLAG or BOMB.
C12_ValidMovesExact ==
  \A b \in Boards : \A pos \in QueryPositions :
    LET got == getValidMoves(b, isAlive, pos)
        character == getCharacter(b, pos)
    IN  /\ IF \/ ~isValidPosition(pos)
              \/ character = NULL
              \/ playerId(character) # b.currentPlayer
              \/ unitType[character] \in { "FLAG", "BOMB_1", "BOMB_2" }
           THEN got = << >>
           ELSE /\ Range(got) = { Move(pos, to) : to \in legalDestinations(b, pos) }
                /\ Len(got) = Cardinality(legalDestinations(b, pos))
        /\ \A i \in 1 .. Len(got) :
             /\ got[i].fromPos = pos
             /\ isAdjacent(got[i].fromPos, got[i].toPos)
             /\ canMove(unitType[character])
             /\ LET target == getCharacter(b, got[i].toPos)
                IN  target = NULL \/ playerId(target) # playerId(character)

\* the units whose kind forPlayer must not learn: the other player's
\* units that are not revealed
hiddenFrom(forPlayer) ==
  { u \in Units : playerId(u) # forPlayer /\ ~isRevealed[u] }

\* every assignment of kinds that differs from unitType on hidden units only
sameButHidden(forPlayer) ==
  { [ u \in Units |-> IF u \in hiddenFrom(forPlayer) THEN f[u] ELSE unitType[u] ] :
      f \in [ hiddenFrom(forPlayer) -> Kinds ] }

\* C13: getBoardState(forPlayer) does not leak hidden identities: boards
\* that differ only in the kinds of the other player's unrevealed units
\* project to identical grids; each such unit is projected to a placeholder
\* carrying only owner and alive (name '???', type 'HIDDEN', null
\* priority), and own units and revealed units keep their full identity.
C13_NoLeak ==
  \A b \in Boards : \A forPlayer \in {0, 1} :
    LET state == getBoardState(b, isAlive, isRevealed, unitType, forPlayer)
    IN  /\ \A type \in sameButHidden(forPlayer) :
             getBoardState(b, isAlive, isRevealed, type, forPlayer) = state
        /\ \A pos \in Cells :
             LET character == b.board[pos]
             IN  IF character = NULL THEN state[pos] = << >>
                 ELSE IF character \in hiddenFrom(forPlayer)
                 THEN state[pos] =
                        << [ name |-> "???", type |-> "HIDDEN",
                             player_id |-> playerId(character),
                             is_alive |-> isAlive[character],
                             is_revealed |-> FALSE,
                             priority |-> << >> ] >>
                 ELSE state[pos] =
                        << [ name |-> CharacterName[unitType[character]],
                             type |-> unitType[character],
                             player_id |-> playerId(character),
                             is_alive |-> isAlive[character],
                             is_revealed |-> isRevealed[character],
                             priority |-> << priority(unitType[character]) >> ] >>

\* the live board shows player 1 a revealed and a hidden unit of player 0
C13_Witness ==
  /\ AcceptedOn("game")
  /\ \E u, v \in UnitsOn(game) :
       /\ playerId(u) = 0 /\ playerId(v) = 0
       /\ isRevealed[u] /\ ~isRevealed[v]

\* C14: a non-null move returned by MCTSAI.getMove(board), by the vote or
\* by the random fallback, is legal on the passed board when it is
\* returned: board.makeMove(move) returns true; getMove returns null only
\* when getAllValidMoves(playerId) is empty.
C14_ReturnedMoveIsLegal ==
  mctsReturned =>
    /\ last.move # << >> =>
         makeMove(game, isAlive, isRevealed, last.move[1]).ok
    /\ last.move = << >> =>
         Len(getAllValidMoves(atCall[1].game, atCall[1].isAlive,
                              playerIdOfMCTSAI)) = 0

\* move takes the FLAG of p's opponent on the live board
capturesFlag(move, p) ==
  LET target == getCharacter(game, move.toPos)
  IN  target # NULL /\ unitType[target] = "FLAG" /\ playerId(target) # p

targetRank(move) ==
  LET target == getCharacter(game, move.toPos)
  IN  IF ~isRevealed[target] THEN -1 ELSE priority(unitType[target])

\* the simulated resolution of move gives attacker survives, defender dies
guaranteedWin(move) ==
  LET attacker == getCharacter(game, move.fromPos)
      target == getCharacter(game, move.toPos)
  IN  /\ target # NULL
      /\ attackerWins(resolveOutcome(unitType[attacker], unitType[target]))

\* C16: when no flag-capturing move exists and at least one guaranteed-win
\* attack does, BasicAI.getMove returns the guaranteed-win move with the
\* highest-value target (a revealed target's value is its priority, the
\* numerically lowest being the most valuable; an unrevealed target has
\* maximal value); among equally valued candidates it returns the one
\* earliest in getAllValidMoves order.
C16_BestGuaranteedWin ==
  [][ (last'.op = "BasicAI.getMove" /\ last'.move # << >>) =>
        LET p == game.currentPlayer
            legal == getAllValidMoves(game, isAlive, p)
            wins == { i \in 1 .. Len(legal) : guaranteedWin(legal[i]) }
            best == CHOOSE i \in wins : \A j \in wins :
                      \/ targetRank(legal[i]) < targetRank(legal[j])
                      \/ targetRank(legal[i]) = targetRank(legal[j]) /\ i <= j
        IN  ( /\ ~\E i \in 1 .. Len(legal) : capturesFlag(legal[i], p)
              /\ wins # { } ) =>
              last'.move = << legal[best] >>
    ]_vars

\* the entry of moveScores with the most votes that was proposed first
firstSeenWinner(scores) ==
  CHOOSE i \in 1 .. Len(scores) :
    /\ \A j \in 1 .. Len(scores) : scores[j].score <= scores[i].score
    /\ \A j \in 1 .. i - 1 : scores[j].score < scores[i].score

\* C17: MCTSAI.getMove returns the move proposed by the largest number of
\* rounds; of several moves tied for the most votes it returns the one
\* proposed first; when no round proposed a move it returns one of
\* getAllValidMoves(playerId).
C17_PluralityFirstSeen ==
  (mctsReturned /\ last.move # << >>) =>
    IF Len(moveScores) = 0
    THEN isMember(last.move[1], movesAtCall)
    ELSE last.move[1] =
           Move(Position(moveScores[firstSeenWinner(moveScores)].key[1],
                         moveScores[firstSeenWinner(moveScores)].key[2]),
                Position(moveScores[firstSeenWinner(moveScores)].key[3],
                         moveScores[firstSeenWinner(moveScores)].key[4]))

\* C18: MCTSAI.simulate ends after at most maxMoves passes of its loop (the
\* model's bound for the source's default of 100), each pass counting one
\* ply; it returns the winner's player id when the playout board is over,
\* which happens by the capture of a FLAG and makes the capturing side the
\* winner, and otherwise -1, which happens only when the cap is reached or
\* the player to move has no legal move; a call of simulate always returns.
simulateStepsAndReturns ==
  pc = "simulate" =>
    /\ moves <= maxMoves
    /\ pc' = "simulate" => moves' = moves + 1
    /\ pc' # "simulate" =>
         LET b == simBoard[1]
         IN  /\ pc' = "search"
             /\ result' = << IF b.gameOver THEN b.winner[1] ELSE -1 >>
             /\ b.gameOver =>
                  /\ b.winner # << >>
                  /\ b.winner[1] \in {0, 1}
                  /\ b.lastBattle # << >>
                  /\ b.lastBattle[1].defender = "FLAG"
                  /\ b.winner[1] = 1 - b.currentPlayer
             /\ ~b.gameOver =>
                  \/ moves = maxMoves
                  \/ Len(getAllValidMoves(b, isAlive, b.currentPlayer)) = 0

aliveCount(alive) == Cardinality({ u \in Units : alive[u] })

\* C19: no accepted move makes the number of alive units grow: a move onto
\* an empty cell leaves every unit's isAlive as it was, and a battle never
\* turns a dead unit alive, so the count after it is at most the count
\* before.
C19_AliveCountNeverGrows ==
  \A b \in Boards : \A move \in MoveInputs :
    LET r == makeMove(b, isAlive, isRevealed, move)
        target == getCharacter(b, move.toPos)
    IN  r.ok =>
          /\ aliveCount(r.isAlive) <= aliveCount(isAlive)
          /\ target = NULL => r.isAlive = isAlive
          /\ \A u \in Units : r.isAlive[u] => isAlive[u]

\* a unit has fallen in an earlier battle and an attack has just been
\* accepted on the live board
C19_Witness ==
  /\ AcceptedOn("game")
  /\ game.lastBattle # << >>
  /\ aliveCount(isAlive) <= NumUnits - 2

\* C20: after an accepted attack the grid of the board shows the outcome of
\* the battle and nothing else: the origin is empty; the destination holds
\* the attacker if it survives, the defender if only the defender survives
\* and nothing if both die, which is the case of equal priorities; a unit
\* that did not survive has isAlive false and stands on no cell of the
\* board; every other cell is as before.
C20_GridReflectsBattle ==
  \A b \in Boards : \A move \in MoveInputs :
    LET r == makeMove(b, isAlive, isRevealed, move)
        character == getCharacter(b, move.fromPos)
        target == getCharacter(b, move.toPos)
        grid == r.board.board
    IN  (r.ok /\ target # NULL) =>
          LET outcome == resolveBattle(character, target, isRevealed).result
              attackerSurvives == outcome.attackerSurvives
              defenderSurvives == outcome.defenderSurvives
          IN  /\ r.board.lastBattle # << >>
              /\ r.board.lastBattle[1].attackerSurvives = attackerSurvives
              /\ r.board.lastBattle[1].defenderSurvives = defenderSurvives
              /\ grid[move.fromPos] = NULL
              /\ grid[move.toPos] = IF attackerSurvives THEN character
                                    ELSE IF defenderSurvives THEN target
                                    ELSE NULL
              /\ (~attackerSurvives /\ ~defenderSurvives) =>
                   priority(unitType[character]) = priority(unitType[target])
              /\ ~attackerSurvives =>
                   /\ ~r.isAlive[character]
                   /\ \A pos \in Cells : grid[pos] # character
              /\ ~defenderSurvives =>
                   /\ ~r.isAlive[target]
                   /\ \A pos \in Cells : grid[pos] # target
              /\ \A pos \in Cells \ { move.fromPos, move.toPos } :
                   grid[pos] = b.board[pos]

\* an attack has just been accepted on the live board in which the
\* attacker fell and the defender kept its cell
C20_Witness ==
  /\ AcceptedOn("game")
  /\ game.lastBattle # << >>
  /\ ~game.lastBattle[1].attackerSurvives
  /\ game.lastBattle[1].defenderSurvives
  /\ \E pos \in Cells :
       /\ game.board[pos] # NULL
       /\ unitType[game.board[pos]] = game.lastBattle[1].defender
       /\ playerId(game.board[pos]) = game.currentPlayer

\* the place of a cell in row-major order, and of a move's destination in
\* the order up, down, left, right
cellRank(pos) == pos.row * COLS + pos.col
destinationRank(move) ==
  IF move.toPos.row = move.fromPos.row - 1 THEN 1
  ELSE IF move.toPos.row = move.fromPos.row + 1 THEN 2
  ELSE IF move.toPos.col = move.fromPos.col - 1 THEN 3
  ELSE 4

fullSide(p, kinds) ==
  { u \in FullUnits :
      /\ (u <= Len(createFullTeam)) = (p = 0)
      /\ unitType[u] \in kinds }

\* C22: after setupBoard(), whatever the two shuffles drew, each of the 42
\* units stands on exactly one cell; player 0's 21 units fill rows 0-2 and
\* player 1's rows 6-8; rows 3-5 are empty; every unit is alive and
\* unrevealed; a side has one FLAG, two BOMBs, one ENGINEER, two WUKONGs,
\* one MP and one of each of the 14 ranks; gameOver is false and winner is
\* null.
C22_SetupIsComplete ==
  last.op = "setupBoard" =>
    /\ Cardinality(FullUnits) = 42
    /\ \A u \in FullUnits :
         Cardinality({ pos \in FullCells : game.board[pos] = u }) = 1
    /\ \A pos \in FullCells :
         /\ pos.row \in 0 .. 2 => game.board[pos] \in fullSide(0, Kinds)
         /\ pos.row \in 6 .. 8 => game.board[pos] \in fullSide(1, Kinds)
         /\ pos.row \in 3 .. 5 => game.board[pos] = NULL
    /\ \A u \in FullUnits : isAlive[u] /\ ~isRevealed[u]
    /\ \A p \in {0, 1} :
         /\ Cardinality(fullSide(p, Kinds)) = 21
         /\ Cardinality(fullSide(p, { "FLAG" })) = 1
         /\ Cardinality(fullSide(p, { "BOMB_1", "BOMB_2" })) = 2
         /\ Cardinality(fullSide(p, { "ENGINEER" })) = 1
         /\ Cardinality(fullSide(p, { "WUKONG_1", "WUKONG_2" })) = 2
         /\ Cardinality(fullSide(p, { "MP" })) = 1
         /\ \A rank \in 1 .. 14 :
              Cardinality({ u \in fullSide(p, Kinds) :
                              priority(unitType[u]) = rank }) = 1
    /\ ~game.gameOver
    /\ game.winner = << >>

\* setupBoard() has returned and both shuffles have moved the first unit of
\* their team away from the first cell of its home rows
C22_Witness ==
  /\ last.op = "setupBoard"
  /\ game.board[Position(0, 0)] # aiTeam(0)
  /\ game.board[Position(GameBoardROWS - HomeRows, 0)] # playerTeam(0)

\* the units that are FLAGs or BOMBs
fixedUnits == { u \in Units : unitType[u] \in { "FLAG", "BOMB_1", "BOMB_2" } }

\* C23: FLAG and BOMB units never move: makeMove accepts no move whose
\* moving unit is a FLAG or a BOMB, and in every step of a game a FLAG or
\* BOMB that is on a cell afterwards was on that cell before, so it is
\* still where setup placed it.
C23_FlagAndBombStay ==
  /\ [](\A move \in MoveInputs :
          makeMove(game, isAlive, isRevealed, move).ok =>
            getCharacter(game, move.fromPos) \notin fixedUnits)
  /\ [][ \A u \in fixedUnits : \A pos \in Cells :
           game'.board[pos] = u => game.board[pos] = u ]_vars

\* a BOMB has just been attacked on the live board and has kept its cell
C23_Witness ==
  /\ AcceptedOn("game")
  /\ game.lastBattle # << >>
  /\ game.lastBattle[1].defender = "BOMB_1"
  /\ game.lastBattle[1].defenderSurvives
  /\ \E pos \in Cells :
       /\ game.board[pos] # NULL
       /\ unitType[game.board[pos]] = "BOMB_1"
       /\ pos.row \in { 0, ROWS - 1 }

\* C24: the end of a game is final: once gameOver is true on a board it
\* stays true under every later operation, and winner, once a player id,
\* never becomes another value.
C24_GameOverIsTerminal ==
  [][ /\ game.gameOver => game'.gameOver
      /\ game.winner # << >> => game'.winner = game.winner ]_vars

\* the part of C24 about gameOver alone
C24_GameOverStays == [][ game.gameOver => game'.gameOver ]_vars

\* a move has been accepted on a board that was over already
C24_Witness ==
  /\ AcceptedOn("game")
  /\ game.gameOver
  /\ game.lastBattle = << >>

RECURSIVE ancestors(_, _)
\* node n of tree t and the nodes above it, up to the root
ancestors(t, n) == IF n = 0 THEN { } ELSE { n } \cup ancestors(t, t[n].parent)

\* C25: an iteration of mctsSearch adds one visit to every node from the
\* simulated node up to the root and to no other node, and adds to the wins
\* of the same nodes 1 when the playout's winner is the agent, 0.5 when
\* the playout is a draw and 0 otherwise (wins are counted in halves); so
\* every node of every tree has 0 <= wins <= visits and the root's visits
\* are the iterations completed.
C25_BackpropagationAccounting ==
  /\ [][ (pc = "simulate" /\ pc' = "search") =>
           LET path == ancestors(tree, node)
               gain == IF simBoard[1].gameOver
                       THEN IF simBoard[1].winner[1] = playerIdOfMCTSAI
                            THEN 2 ELSE 0
                       ELSE 1
           IN  /\ 1 \in path
               /\ Len(tree') = Len(tree)
               /\ iterations' = iterations + 1
               /\ \A n \in 1 .. Len(tree) :
                    IF n \in path
                    THEN tree'[n] = [ tree[n] EXCEPT !.visits = @ + 1,
                                                     !.wins = @ + gain ]
                    ELSE tree'[n] = tree[n] ]_vars
  /\ [](\A n \in 1 .. Len(tree) :
          /\ 0 <= tree[n].wins
          /\ tree[n].wins <= 2 * tree[n].visits)
  /\ [](Len(tree) > 0 => tree[1].visits = iterations)

\* a search has backpropagated through a node below the root's children,
\* and its root has counted both a win or draw and a loss or draw
C25_Witness ==
  /\ pc = "search"
  /\ \E n \in 1 .. Len(tree) : tree[n].parent > 1 /\ tree[n].visits > 0
  /\ tree[1].wins > 0
  /\ tree[1].wins < 2 * tree[1].visits

\* an expansion: mctsSearch has attached a new child to the tree
expanded == pc = "search" /\ pc' = "simulate" /\ Len(tree') = Len(tree) + 1

\* C26: the board of every child node that mctsSearch creates is its
\* parent's board after one accepted makeMove of the child's move, so the
\* turn has passed to the other player on it; an expansion takes the move
\* out of its node's untried moves, so for every node the number of
\* children plus the number of untried moves stays what it was.
C26_ExpansionAppliesMove ==
  [][ /\ expanded =>
           LET child == tree'[Len(tree')]
               parent == tree[child.parent]
               r == makeMove(clone(parent.board), isAlive, isRevealed,
                             child.move[1])
           IN  /\ r.ok
               /\ child.board = r.board
               /\ child.board.currentPlayer = 1 - parent.board.currentPlayer
               /\ isMember(child.move[1], parent.untriedMoves)
               /\ ~isMember(child.move[1], tree'[child.parent].untriedMoves)
      /\ (Len(tree) > 0 /\ Len(tree') >= Len(tree)) =>
           \A n \in 1 .. Len(tree) :
             Len(tree'[n].children) + Len(tree'[n].untriedMoves)
               = Len(tree[n].children) + Len(tree[n].untriedMoves) ]_vars

\* the part of C26 that counts: children plus untried moves is constant
C26_ChildrenPlusUntriedConstant ==
  [][ (Len(tree) > 0 /\ Len(tree') >= Len(tree)) =>
        \A n \in 1 .. Len(tree) :
          Len(tree'[n].children) + Len(tree'[n].untriedMoves)
            = Len(tree[n].children) + Len(tree[n].untriedMoves) ]_vars

\* the cells of the live board that hold unit u
cellsOf(u) == { pos \in Cells : game.board[pos] = u }

\* C28: on one board played by makeMove alone a unit stands on a cell
\* exactly when its isAlive is true, an alive unit stands on exactly one
\* cell, and no unit is on two cells.
C28_GridMatchesAlive ==
  \A u \in Units :
    /\ cellsOf(u) # { } <=> isAlive[u]
    /\ isAlive[u] => Cardinality(cellsOf(u)) = 1
    /\ Cardinality(cellsOf(u)) <= 1

\* both units of an even battle have just left the live board
C28_Witness ==
  /\ AcceptedOn("game")
  /\ game.lastBattle # << >>
  /\ ~game.lastBattle[1].attackerSurvives
  /\ ~game.lastBattle[1].defenderSurvives
  /\ Cardinality({ u \in Units : cellsOf(u) = { } }) = 2

\* C30: while a game is not over the player to move has a legal move:
\* getAllValidMoves(currentPlayer) is not empty.
C30_NoStuckTurn ==
  ~game.gameOver =>
    Len(getAllValidMoves(game, isAlive, game.currentPlayer)) > 0

\* the board the App holds is back with the player, or its game is over
turnIsBack ==
  /\ gameBoard # 0
  /\ heap[gameBoard].game.currentPlayer = 1 \/ heap[gameBoard].game.gameOver

\* the board the App holds waits for the AI and nothing is scheduled
waitsForNobody ==
  /\ gameBoard # 0
  /\ heap[gameBoard].game.currentPlayer = 0
  /\ ~heap[gameBoard].game.gameOver
  /\ timers = { }

\* C27: after an accepted move of the player that leaves the game going,
\* the AI task that was scheduled runs, gets a move from ai.getMove and
\* applies it, so that the turn comes back to the player or the game is
\* over; the session does not stay forever on a board that waits for the
\* AI with no AI task pending.
C27_TurnComesBack ==
  /\ (gameBoard # 0 /\ Timer("makeAIMove", gameBoard, << >>) \in timers)
       ~> turnIsBack
  /\ ~<>[]waitsForNobody

\* an AI task of an earlier game: scheduled for a board that is no longer
\* the one in gameBoard
staleAITask(t) ==
  /\ t.fn \in { "makeAIMove", "aiCallback" }
  /\ t.board # gameBoard

\* what is shown is the board held: gameState is what updateGameState gives
\* for the board in gameBoard
gameStateShowsBoard ==
  gameBoard # 0 => gameState = << updateGameState(heap[gameBoard]) >>

\* C29: an AI task scheduled for an earlier game that runs after
\* startNewGame, while the gameState shown is that of the new game's
\* board, applies no move to the new game's board and leaves the gameState
\* shown as it is.
C29_NoStaleCallback ==
  [][ \A t \in timers :
        (/\ staleAITask(t)
         /\ gameStateShowsBoard
         /\ t \notin timers'
         /\ gameBoard' = gameBoard)
          => /\ heap'[gameBoard] = heap[gameBoard]
             /\ gameState' = gameState ]_vars

\* the half of C29 about the new game's board
C29_NewBoardUntouched ==
  [][ \A t \in timers :
        (t.board # gameBoard /\ t \notin timers' /\ gameBoard' = gameBoard)
          => heap'[gameBoard] = heap[gameBoard] ]_vars

\* the half of C29 about what is shown, at every moment
C29_GameStateShowsBoard == [] gameStateShowsBoard

\* ----------------------------------------------- claims on the resolver
survivors(r) == << r.attackerSurvives, r.defenderSurvives >>

lowerPrioritySurvives(a, d) ==
  IF priority(a) < priority(d) THEN << TRUE, FALSE >>
  ELSE IF priority(d) < priority(a) THEN << FALSE, TRUE >>
  ELSE << FALSE, FALSE >>

\* the first matching rule of the battle table, as <<attacker survives,
\* defender survives>>
BattleTable(a, d) ==
  IF a = "MP" \/ d = "MP" THEN lowerPrioritySurvives(a, d)
  ELSE IF d = "FLAG" THEN << TRUE, FALSE >>
  ELSE IF {a, d} \in { {"ENGINEER", "BOMB_1"}, {"ENGINEER", "BOMB_2"} }
       THEN << a = "ENGINEER", d = "ENGINEER" >>
  ELSE IF isBomb(a) # isBomb(d) THEN << isBomb(a), isBomb(d) >>
  ELSE IF (isWukong(a) /\ priority(d) \in 1 .. 5)
          \/ (isWukong(d) /\ priority(a) \in 1 .. 5)
       THEN << isWukong(a), isWukong(d) >>
  ELSE lowerPrioritySurvives(a, d)

\* C8: for every ordered pair of kinds the survivorship resolveBattle
\* returns is the first matching rule of the battle table.
C8_MatchesBattleTable ==
  battle # << >> =>
    survivors(battle[1]) = BattleTable(unitType[Attacker], unitType[Defender])

\* a general has attacked a BOMB: the BOMB survives, the general dies
C8_Witness ==
  /\ battle # << >>
  /\ unitType[Attacker] = "GENERAL_5"
  /\ isBomb(unitType[Defender])
  /\ survivors(battle[1]) = << FALSE, TRUE >>

\* swapping attacker and defender swaps the survivorship
SwapSymmetric(r, a, d) ==
  LET s == resolveOutcome(d, a)
  IN  /\ r.attackerSurvives = s.defenderSurvives
      /\ r.defenderSurvives = s.attackerSurvives

\* C9 as stated: survivorship is symmetric under attacker/defender swap for
\* every pair of kinds.
C9_SymmetricForEveryPair ==
  battle # << >> =>
    SwapSymmetric(battle[1], unitType[Attacker], unitType[Defender])

\* C9 amended: survivorship is symmetric under attacker/defender swap for
\* every pair of kinds other than FLAG against FLAG.
C9_SymmetricExceptFlagFlag ==
  (battle # << >> /\ ~(unitType[Attacker] = "FLAG" /\ unitType[Defender] = "FLAG")) =>
    SwapSymmetric(battle[1], unitType[Attacker], unitType[Defender])

\* a BOMB has attacked a general and survived, as it does when attacked
C9_Witness ==
  /\ battle # << >>
  /\ isBomb(unitType[Attacker])
  /\ unitType[Defender] = "COLONEL"
  /\ survivors(battle[1]) = << TRUE, FALSE >>

=============================================================================
